---- MODULE Spec2Model ----
(***************************************************************************)
(* The AMM contract of the tutorial (README.md, "contract AMM"): two       *)
(* reserves, proportional shares, constant-product swaps.                  *)
(*                                                                         *)
(* Storage variables carry the contract's names.  A call is modelled as    *)
(* an entry step (modifiers, estimates and requires, none of which write   *)
(* storage), then one step per storage-writing statement of the function   *)
(* body in source order, then a return step.  A failed require or a        *)
(* checked-arithmetic panic reverts storage to the snapshot taken at       *)
(* call entry.                                                             *)
(*                                                                         *)
(* uint256 is modelled as an unsigned integer of UintBits bits; SafeMath   *)
(* and the compound assignments are the checked arithmetic of Solidity     *)
(* 0.8 (the only compiler line the imported                                *)
(* @openzeppelin/contracts/utils/math/SafeMath.sol builds with).           *)
(***************************************************************************)
EXTENDS Integers, Sequences, FiniteSets, TLC

\* ---------------------------------------------------------------- bounds
\* width of the modelled unsigned integer type
UintBits == 29
\* small amounts offered as call arguments: 0..MaxAmount
MaxAmount == 3
\* cap on what the faucet issues of each token while one account acts alone
MaxSupply == 5
\* cap on what the faucet issues of each token while two accounts act
DuoSupply == 2

Accounts == {"a1", "a2"}

MaxUint == 2^UintBits - 1

\* the smallest power of two whose square no longer fits the integer type
BigAmount == 2^((UintBits \div 2) + 1)

\* ------------------------------------------------------ program constants
PRECISION == 1000000

\* ---------------------------------------------------------------- state
VARIABLES
    totalShares,    \* total amount of share issued for the pool
    totalToken1,    \* amount of Token1 locked in the pool
    totalToken2,    \* amount of Token2 locked in the pool
    K,              \* algorithmic constant used to determine price
    shares,         \* share holding of each provider
    token1Balance,  \* balance of each user outside of the AMM
    token2Balance,
    pc,             \* "idle" | "body" | "ret": position of the call in flight
    ip,             \* index of the next statement of the body to execute
    call,           \* the call in flight: operation, msg.sender, arguments, results
    saved,          \* storage at call entry (what a revert restores)
    lastProvide,    \* the last successful provide, while no call has changed storage since
    lastSwap,       \* the successful swap just returned, when its round trip is followed
    contract,       \* SwapComponent: props.contract, "null" until a wallet is connected
    coin,           \* SwapComponent: the From and To tokens
    amountFrom,     \* SwapComponent: the content of the From box
    amountTo,       \* SwapComponent: the content of the To box
    pending,        \* SwapComponent: the estimate calls awaiting their response
    issued,         \* the number of estimate calls made so far
    latest          \* the estimate call made for the From amount entered last

storageVars == <<totalShares, totalToken1, totalToken2, K, shares, token1Balance, token2Balance>>
vars == <<totalShares, totalToken1, totalToken2, K, shares, token1Balance, token2Balance,
          pc, ip, call, saved, lastProvide, lastSwap,
          contract, coin, amountFrom, amountTo, pending, issued, latest>>
chainVars == <<totalShares, totalToken1, totalToken2, K, shares, token1Balance, token2Balance,
               pc, ip, call, saved, lastProvide, lastSwap>>
formVars == <<contract, coin, amountFrom, amountTo, pending, issued, latest>>

Storage ==
    [totalShares |-> totalShares, totalToken1 |-> totalToken1,
     totalToken2 |-> totalToken2, K |-> K, shares |-> shares,
     token1Balance |-> token1Balance, token2Balance |-> token2Balance]

Store(s) ==
    /\ totalShares' = s.totalShares
    /\ totalToken1' = s.totalToken1
    /\ totalToken2' = s.totalToken2
    /\ K' = s.K
    /\ shares' = s.shares
    /\ token1Balance' = s.token1Balance
    /\ token2Balance' = s.token2Balance

\* parameters (_amountToken1, _amountToken2, _share in the source) and the
\* named return values (share, amountToken1, amountToken2) of the call in flight
NoCall == [op |-> "none", sender |-> "none",
           argAmountToken1 |-> 0, argAmountToken2 |-> 0, argShare |-> 0,
           share |-> 0, amountToken1 |-> 0, amountToken2 |-> 0,
           reqToken1 |-> 0, reqToken2 |-> 0, err |-> ""]

\* no provide on record
NoProvide == [sender |-> "none", amountToken1 |-> 0, amountToken2 |-> 0, share |-> 0,
              totalShares |-> 0, totalToken1 |-> 0, totalToken2 |-> 0]

\* the content of an amount box: empty, or a decimal number with up to six
\* decimals, held as its whole part and its millionths
Blank == [kind |-> "blank", whole |-> 0, micros |-> 0]
Decimal(w, m) == [kind |-> "number", whole |-> w, micros |-> m]

\* no estimate call on record
NoRequest == [id |-> 0, fn |-> "none", val |-> Blank, sets |-> "none"]

\* SwapComponent as mounted: useState(["KAR", "KOTHI"]), useState(0.0), useState(0.0)
Mounted ==
    /\ coin = << "KAR", "KOTHI" >>
    /\ amountFrom = Decimal(0, 0)
    /\ amountTo = Decimal(0, 0)
    /\ pending = {}
    /\ issued = 0
    /\ latest = NoRequest

\* no swap on record
NoSwap == [op |-> "none", sender |-> "none", amountIn |-> 0, amountOut |-> 0]

\* ------------------------------------------------- checked uint arithmetic
Ok(v) == [err |-> "", val |-> v]
Overflow == [err |-> "Panic: arithmetic overflow", val |-> 0]
DivByZero == [err |-> "Panic: division by zero", val |-> 0]

\* mutant: unchecked addition, the sum wraps around
addWraps(a, b) == Ok((a + b) % (MaxUint + 1))

add(a, b) == IF a + b <= MaxUint THEN Ok(a + b) ELSE Overflow
sub(a, b) == IF b <= a THEN Ok(a - b) ELSE Overflow
mul(a, b) == IF a = 0 \/ b <= MaxUint \div a THEN Ok(a * b) ELSE Overflow
div(a, b) == IF b > 0 THEN Ok(a \div b) ELSE DivByZero

\* a.mul(b).div(c)
muldiv(a, b, c) == LET m == mul(a, b) IN IF m.err = "" THEN div(m.val, c) ELSE m

\* --------------------------------------------------------------- modifiers
\* mutant: the whole balance may not be spent
validAmountCheckBelowBalance(balance, sender, qty) ==
    IF ~(qty > 0) THEN "Amount cannot be zero!"
    ELSE IF ~(qty < balance[sender]) THEN "Insufficient amount"
    ELSE ""

\* mutant: the modifier forgets the balance comparison
validAmountCheckNoBalance(balance, sender, qty) ==
    IF ~(qty > 0) THEN "Amount cannot be zero!" ELSE ""

\* mutant: the modifier forgets the zero check
validAmountCheckNoZero(balance, sender, qty) ==
    IF ~(qty <= balance[sender]) THEN "Insufficient amount" ELSE ""

validAmountCheck(balance, sender, qty) ==
    IF ~(qty > 0) THEN "Amount cannot be zero!"
    ELSE IF ~(qty <= balance[sender]) THEN "Insufficient amount"
    ELSE ""

\* mutant: the modifier lets every call through
activePoolAlwaysOpen(s) == ""

activePool(s) == IF s.totalShares > 0 THEN "" ELSE "Zero Liquidity"


\* ------------------------------------------------------- result records
Fail(msg) == [err |-> msg, ret1 |-> 0, ret2 |-> 0]
Ret(v1, v2) == [err |-> "", ret1 |-> v1, ret2 |-> v2]
Ret3(v1, v2, v3) == [err |-> "", ret1 |-> v1, ret2 |-> v2, ret3 |-> v3]

RECURSIVE SumOver(_, _)
SumOver(f, S) ==
    IF S = {} THEN 0
    ELSE LET x == CHOOSE y \in S : TRUE IN f[x] + SumOver(f, S \ {x})

\* ----------------------------------------------------------------- provide
\* mutant: genesis issues 100 units instead of 100 whole shares
provideShareGenesisUnscaled(s, a1, a2) ==
    IF s.totalShares = 0 THEN Ok(100)
    ELSE LET share1 == muldiv(s.totalShares, a1, s.totalToken1)
             share2 == muldiv(s.totalShares, a2, s.totalToken2)
         IN  IF share1.err # "" THEN share1
             ELSE IF share2.err # "" THEN share2
             ELSE IF ~(share1.val = share2.val)
                  THEN [err |-> "Equivalent value of tokens not provided...", val |-> 0]
             ELSE share1

\* mutant: the equivalence of the two amounts is not required
provideShareNoEquivalence(s, a1, a2) ==
    IF s.totalShares = 0 THEN Ok(100 * PRECISION)
    ELSE LET share1 == muldiv(s.totalShares, a1, s.totalToken1)
             share2 == muldiv(s.totalShares, a2, s.totalToken2)
         IN  IF share1.err # "" THEN share1
             ELSE IF share2.err # "" THEN share2
             ELSE share1

\* mutant: the first provider is issued as many shares as Token1 provided
provideShareGenesisIssuesAmount(s, a1, a2) ==
    IF s.totalShares = 0 THEN Ok(a1)
    ELSE LET share1 == muldiv(s.totalShares, a1, s.totalToken1)
             share2 == muldiv(s.totalShares, a2, s.totalToken2)
         IN  IF share1.err # "" THEN share1
             ELSE IF share2.err # "" THEN share2
             ELSE IF ~(share1.val = share2.val)
                  THEN [err |-> "Equivalent value of tokens not provided...", val |-> 0]
             ELSE share1

\* the share computation and its requires (body of provide up to the first write)
provideShare(s, a1, a2) ==
    IF s.totalShares = 0 THEN Ok(100 * PRECISION)
    ELSE LET share1 == muldiv(s.totalShares, a1, s.totalToken1)
             share2 == muldiv(s.totalShares, a2, s.totalToken2)
         IN  IF share1.err # "" THEN share1
             ELSE IF share2.err # "" THEN share2
             ELSE IF ~(share1.val = share2.val)
                  THEN [err |-> "Equivalent value of tokens not provided...", val |-> 0]
             ELSE share1

\* mutant: the Token2 amount is validated before the Token1 amount
provideEntryChecksToken2First(s, sender, a1, a2) ==
    LET g1 == validAmountCheck(s.token1Balance, sender, a1)
        g2 == validAmountCheck(s.token2Balance, sender, a2)
        sh == provideShare(s, a1, a2)
    IN  IF g2 # "" THEN Fail(g2)
        ELSE IF g1 # "" THEN Fail(g1)
        ELSE IF sh.err # "" THEN Fail(sh.err)
        ELSE IF ~(sh.val > 0)
             THEN Fail("Asset value less than threshold for contribution!")
        ELSE Ret(sh.val, 0)

\* mutant: the contribution threshold is not required
provideEntryNoThreshold(s, sender, a1, a2) ==
    LET g1 == validAmountCheck(s.token1Balance, sender, a1)
        g2 == validAmountCheck(s.token2Balance, sender, a2)
        sh == provideShare(s, a1, a2)
    IN  IF g1 # "" THEN Fail(g1)
        ELSE IF g2 # "" THEN Fail(g2)
        ELSE IF sh.err # "" THEN Fail(sh.err)
        ELSE Ret(sh.val, 0)

provideEntry(s, sender, a1, a2) ==
    LET g1 == validAmountCheck(s.token1Balance, sender, a1)
        g2 == validAmountCheck(s.token2Balance, sender, a2)
        sh == provideShare(s, a1, a2)
    IN  IF g1 # "" THEN Fail(g1)
        ELSE IF g2 # "" THEN Fail(g2)
        ELSE IF sh.err # "" THEN Fail(sh.err)
        ELSE IF ~(sh.val > 0)
             THEN Fail("Asset value less than threshold for contribution!")
        ELSE Ret(sh.val, 0)

\* mutant: totalShares is not increased
ProvideBodyNoTotalShares ==
    << "token1Balance[msg.sender] -= _amountToken1",
       "token2Balance[msg.sender] -= _amountToken2",
       "totalToken1 += _amountToken1",
       "totalToken2 += _amountToken2",
       "K = totalToken1.mul(totalToken2)",
       "shares[msg.sender] += share" >>

\* mutant: the shares are issued first, the balances debited last
ProvideBodySharesFirst ==
    << "totalShares += share",
       "shares[msg.sender] += share",
       "totalToken1 += _amountToken1",
       "totalToken2 += _amountToken2",
       "K = totalToken1.mul(totalToken2)",
       "token1Balance[msg.sender] -= _amountToken1",
       "token2Balance[msg.sender] -= _amountToken2" >>

\* the storage-writing statements of provide, in source order
ProvideBody ==
    << "token1Balance[msg.sender] -= _amountToken1",
       "token2Balance[msg.sender] -= _amountToken2",
       "totalToken1 += _amountToken1",
       "totalToken2 += _amountToken2",
       "K = totalToken1.mul(totalToken2)",
       "totalShares += share",
       "shares[msg.sender] += share" >>

\* ---------------------------------------------------------------- withdraw
\* mutant: each amount is computed from the other token's reserve
getWithdrawEstimateSwapped(s, share) ==
    IF activePool(s) # "" THEN Fail(activePool(s))
    ELSE IF ~(share <= s.totalShares) THEN Fail("Share should be less than totalShare")
    ELSE LET amountToken1 == muldiv(share, s.totalToken2, s.totalShares)
             amountToken2 == muldiv(share, s.totalToken1, s.totalShares)
         IN  IF amountToken1.err # "" THEN Fail(amountToken1.err)
             ELSE IF amountToken2.err # "" THEN Fail(amountToken2.err)
             ELSE Ret(amountToken1.val, amountToken2.val)

\* mutant: the amounts released are rounded up instead of down
getWithdrawEstimateRoundsUp(s, share) ==
    IF activePool(s) # "" THEN Fail(activePool(s))
    ELSE IF ~(share <= s.totalShares) THEN Fail("Share should be less than totalShare")
    ELSE LET product1 == mul(share, s.totalToken1)
             product2 == mul(share, s.totalToken2)
         IN  IF product1.err # "" THEN Fail(product1.err)
             ELSE IF product2.err # "" THEN Fail(product2.err)
             ELSE Ret((product1.val \div s.totalShares)
                         + (IF product1.val % s.totalShares = 0 THEN 0 ELSE 1),
                      (product2.val \div s.totalShares)
                         + (IF product2.val % s.totalShares = 0 THEN 0 ELSE 1))

\* mutant: the share is not compared with totalShares
getWithdrawEstimateNoShareCheck(s, share) ==
    IF activePool(s) # "" THEN Fail(activePool(s))
    ELSE LET amountToken1 == muldiv(share, s.totalToken1, s.totalShares)
             amountToken2 == muldiv(share, s.totalToken2, s.totalShares)
         IN  IF amountToken1.err # "" THEN Fail(amountToken1.err)
             ELSE IF amountToken2.err # "" THEN Fail(amountToken2.err)
             ELSE Ret(amountToken1.val, amountToken2.val)

getWithdrawEstimate(s, share) ==
    IF activePool(s) # "" THEN Fail(activePool(s))
    ELSE IF ~(share <= s.totalShares) THEN Fail("Share should be less than totalShare")
    ELSE LET amountToken1 == muldiv(share, s.totalToken1, s.totalShares)
             amountToken2 == muldiv(share, s.totalToken2, s.totalShares)
         IN  IF amountToken1.err # "" THEN Fail(amountToken1.err)
             ELSE IF amountToken2.err # "" THEN Fail(amountToken2.err)
             ELSE Ret(amountToken1.val, amountToken2.val)

withdrawEntry(s, sender, share) ==
    LET g == validAmountCheck(s.shares, sender, share)
    IN  IF activePool(s) # "" THEN Fail(activePool(s))
        ELSE IF g # "" THEN Fail(g)
        ELSE getWithdrawEstimate(s, share)

\* mutant: the Token2 reserve is not reduced
WithdrawBodyKeepsToken2 ==
    << "shares[msg.sender] -= _share",
       "totalShares -= _share",
       "totalToken1 -= amountToken1",
       "K = totalToken1.mul(totalToken2)",
       "token1Balance[msg.sender] += amountToken1",
       "token2Balance[msg.sender] += amountToken2" >>

\* mutant: K is not recomputed
WithdrawBodyStaleK ==
    << "shares[msg.sender] -= _share",
       "totalShares -= _share",
       "totalToken1 -= amountToken1",
       "totalToken2 -= amountToken2",
       "token1Balance[msg.sender] += amountToken1",
       "token2Balance[msg.sender] += amountToken2" >>

\* mutant: the caller is not credited with Token1
WithdrawBodyNoToken1Credit ==
    << "shares[msg.sender] -= _share",
       "totalShares -= _share",
       "totalToken1 -= amountToken1",
       "totalToken2 -= amountToken2",
       "K = totalToken1.mul(totalToken2)",
       "token2Balance[msg.sender] += amountToken2" >>

\* mutant: totalShares is not reduced
WithdrawBodyKeepsTotalShares ==
    << "shares[msg.sender] -= _share",
       "totalToken1 -= amountToken1",
       "totalToken2 -= amountToken2",
       "K = totalToken1.mul(totalToken2)",
       "token1Balance[msg.sender] += amountToken1",
       "token2Balance[msg.sender] += amountToken2" >>

\* mutant: totalShares is reduced twice
WithdrawBodyBurnsTotalTwice ==
    << "shares[msg.sender] -= _share",
       "totalShares -= _share",
       "totalShares -= _share",
       "totalToken1 -= amountToken1",
       "totalToken2 -= amountToken2",
       "K = totalToken1.mul(totalToken2)",
       "token1Balance[msg.sender] += amountToken1",
       "token2Balance[msg.sender] += amountToken2" >>

\* mutant: the caller is credited before the shares are burned
WithdrawBodyCreditsFirst ==
    << "token1Balance[msg.sender] += amountToken1",
       "token2Balance[msg.sender] += amountToken2",
       "shares[msg.sender] -= _share",
       "totalShares -= _share",
       "totalToken1 -= amountToken1",
       "totalToken2 -= amountToken2",
       "K = totalToken1.mul(totalToken2)" >>

\* the storage-writing statements of withdraw, in source order
WithdrawBody ==
    << "shares[msg.sender] -= _share",
       "totalShares -= _share",
       "totalToken1 -= amountToken1",
       "totalToken2 -= amountToken2",
       "K = totalToken1.mul(totalToken2)",
       "token1Balance[msg.sender] += amountToken1",
       "token2Balance[msg.sender] += amountToken2" >>

\* -------------------------------------------------------------------- swap
\* mutant: the estimate may drain the whole Token2 reserve
getSwapToken1EstimateNoGuard(s, amountToken1) ==
    IF activePool(s) # "" THEN Fail(activePool(s))
    ELSE LET token1After == add(s.totalToken1, amountToken1)
             token2After == IF token1After.err = "" THEN div(s.K, token1After.val)
                            ELSE token1After
             amountToken2 == IF token2After.err = "" THEN sub(s.totalToken2, token2After.val)
                             ELSE token2After
         IN  IF amountToken2.err # "" THEN Fail(amountToken2.err)
             ELSE Ret(amountToken2.val, 0)

\* mutant: the quotient is subtracted from the input reserve after the swap
getSwapToken1EstimateFromInputReserve(s, amountToken1) ==
    IF activePool(s) # "" THEN Fail(activePool(s))
    ELSE LET token1After == add(s.totalToken1, amountToken1)
             token2After == IF token1After.err = "" THEN div(s.K, token1After.val)
                            ELSE token1After
             amountToken2 == IF token2After.err = "" THEN sub(token2After.val, token1After.val)
                             ELSE token2After
             guarded == IF amountToken2.err = "" /\ amountToken2.val = s.totalToken2
                        THEN sub(amountToken2.val, 1)
                        ELSE amountToken2
         IN  IF guarded.err # "" THEN Fail(guarded.err) ELSE Ret(guarded.val, 0)

getSwapToken1Estimate(s, amountToken1) ==
    IF activePool(s) # "" THEN Fail(activePool(s))
    ELSE LET token1After == add(s.totalToken1, amountToken1)
             token2After == IF token1After.err = "" THEN div(s.K, token1After.val)
                            ELSE token1After
             amountToken2 == IF token2After.err = "" THEN sub(s.totalToken2, token2After.val)
                             ELSE token2After
             \* if(amountToken2 == totalToken2) amountToken2--;
             guarded == IF amountToken2.err = "" /\ amountToken2.val = s.totalToken2
                        THEN sub(amountToken2.val, 1)
                        ELSE amountToken2
         IN  IF guarded.err # "" THEN Fail(guarded.err) ELSE Ret(guarded.val, 0)

swapToken1Entry(s, sender, amountToken1) ==
    LET g == validAmountCheck(s.token1Balance, sender, amountToken1)
    IN  IF activePool(s) # "" THEN Fail(activePool(s))
        ELSE IF g # "" THEN Fail(g)
        ELSE getSwapToken1Estimate(s, amountToken1)

\* mutant: the caller is not credited with Token2
SwapToken1BodyNoCredit ==
    << "token1Balance[msg.sender] -= _amountToken1",
       "totalToken1 += _amountToken1",
       "totalToken2 -= amountToken2" >>

\* mutant: the Token1 paid in is not added to the reserve
SwapToken1BodyKeepsToken1 ==
    << "token1Balance[msg.sender] -= _amountToken1",
       "totalToken2 -= amountToken2",
       "token2Balance[msg.sender] += amountToken2" >>

SwapToken1Body ==
    << "token1Balance[msg.sender] -= _amountToken1",
       "totalToken1 += _amountToken1",
       "totalToken2 -= amountToken2",
       "token2Balance[msg.sender] += amountToken2" >>

\* mutant: the payout is rounded up instead of down
getSwapToken2EstimateRoundsUp(s, amountToken2) ==
    IF activePool(s) # "" THEN Fail(activePool(s))
    ELSE LET token2After == add(s.totalToken2, amountToken2)
             token1After == IF token2After.err = "" THEN div(s.K, token2After.val)
                            ELSE token2After
             amountToken1 == IF token1After.err = "" THEN sub(s.totalToken1, token1After.val)
                             ELSE token1After
             guarded == IF amountToken1.err = "" /\ amountToken1.val + 1 < s.totalToken1
                        THEN Ok(amountToken1.val + 1)
                        ELSE IF amountToken1.err = "" /\ amountToken1.val = s.totalToken1
                        THEN sub(amountToken1.val, 1)
                        ELSE amountToken1
         IN  IF guarded.err # "" THEN Fail(guarded.err) ELSE Ret(guarded.val, 0)

\* mutant: the estimate may drain the whole Token1 reserve
getSwapToken2EstimateNoGuard(s, amountToken2) ==
    IF activePool(s) # "" THEN Fail(activePool(s))
    ELSE LET token2After == add(s.totalToken2, amountToken2)
             token1After == IF token2After.err = "" THEN div(s.K, token2After.val)
                            ELSE token2After
             amountToken1 == IF token1After.err = "" THEN sub(s.totalToken1, token1After.val)
                             ELSE token1After
         IN  IF amountToken1.err # "" THEN Fail(amountToken1.err)
             ELSE Ret(amountToken1.val, 0)

getSwapToken2Estimate(s, amountToken2) ==
    IF activePool(s) # "" THEN Fail(activePool(s))
    ELSE LET token2After == add(s.totalToken2, amountToken2)
             token1After == IF token2After.err = "" THEN div(s.K, token2After.val)
                            ELSE token2After
             amountToken1 == IF token1After.err = "" THEN sub(s.totalToken1, token1After.val)
                             ELSE token1After
             \* if(amountToken1 == totalToken1) amountToken1--;
             guarded == IF amountToken1.err = "" /\ amountToken1.val = s.totalToken1
                        THEN sub(amountToken1.val, 1)
                        ELSE amountToken1
         IN  IF guarded.err # "" THEN Fail(guarded.err) ELSE Ret(guarded.val, 0)

swapToken2Entry(s, sender, amountToken2) ==
    LET g == validAmountCheck(s.token2Balance, sender, amountToken2)
    IN  IF activePool(s) # "" THEN Fail(activePool(s))
        ELSE IF g # "" THEN Fail(g)
        ELSE getSwapToken2Estimate(s, amountToken2)

\* mutant: the caller is not credited with Token1
SwapToken2BodyNoCredit ==
    << "token2Balance[msg.sender] -= _amountToken2",
       "totalToken2 += _amountToken2",
       "totalToken1 -= amountToken1" >>

\* mutant: K is recomputed from the reserves after the swap
SwapToken2BodyRecomputesK ==
    << "token2Balance[msg.sender] -= _amountToken2",
       "totalToken2 += _amountToken2",
       "totalToken1 -= amountToken1",
       "token1Balance[msg.sender] += amountToken1",
       "K = totalToken1.mul(totalToken2)" >>

SwapToken2Body ==
    << "token2Balance[msg.sender] -= _amountToken2",
       "totalToken2 += _amountToken2",
       "totalToken1 -= amountToken1",
       "token1Balance[msg.sender] += amountToken1" >>

\* ------------------------------------------------------------------ views
getMyHoldings(s, sender) ==
    Ret3(s.token1Balance[sender], s.token2Balance[sender], s.shares[sender])

getPoolDetails(s) == Ret3(s.totalToken1, s.totalToken2, s.totalShares)

\* mutant: a view function refreshes K from the reserves
ViewWritesRefreshK == << "K = totalToken1.mul(totalToken2)" >>

\* the storage-writing statements of the view functions: there are none
ViewWrites == << >>

\* --------------------------------------------------------- other estimates
getEquivalentToken1Estimate(s, amountToken2) ==
    IF activePool(s) # "" THEN Fail(activePool(s))
    ELSE LET reqToken1 == muldiv(s.totalToken1, amountToken2, s.totalToken2)
         IN  IF reqToken1.err # "" THEN Fail(reqToken1.err) ELSE Ret(reqToken1.val, 0)

getEquivalentToken2Estimate(s, amountToken1) ==
    IF activePool(s) # "" THEN Fail(activePool(s))
    ELSE LET reqToken2 == muldiv(s.totalToken2, amountToken1, s.totalToken1)
         IN  IF reqToken2.err # "" THEN Fail(reqToken2.err) ELSE Ret(reqToken2.val, 0)

getSwapToken1EstimateGivenToken2(s, amountToken2) ==
    IF activePool(s) # "" THEN Fail(activePool(s))
    ELSE IF ~(amountToken2 < s.totalToken2) THEN Fail("Insufficient pool balance")
    ELSE LET token2After == sub(s.totalToken2, amountToken2)
             token1After == IF token2After.err = "" THEN div(s.K, token2After.val)
                            ELSE token2After
             amountToken1 == IF token1After.err = "" THEN sub(token1After.val, s.totalToken1)
                             ELSE token1After
         IN  IF amountToken1.err # "" THEN Fail(amountToken1.err)
             ELSE Ret(amountToken1.val, 0)

getSwapToken2EstimateGivenToken1(s, amountToken1) ==
    IF activePool(s) # "" THEN Fail(activePool(s))
    ELSE IF ~(amountToken1 < s.totalToken1) THEN Fail("Insufficient pool balance")
    ELSE LET token1After == sub(s.totalToken1, amountToken1)
             token2After == IF token1After.err = "" THEN div(s.K, token1After.val)
                            ELSE token1After
             amountToken2 == IF token2After.err = "" THEN sub(token2After.val, s.totalToken2)
                             ELSE token2After
         IN  IF amountToken2.err # "" THEN Fail(amountToken2.err)
             ELSE Ret(amountToken2.val, 0)

\* ------------------------------------------------------------------ faucet
\* mutant: only Token1 is credited
FaucetBodyToken1Only ==
    << "token1Balance[msg.sender] = token1Balance[msg.sender].add(_amountToken1)" >>

FaucetBody ==
    << "token1Balance[msg.sender] = token1Balance[msg.sender].add(_amountToken1)",
       "token2Balance[msg.sender] = token2Balance[msg.sender].add(_amountToken2)" >>


\* ------------------------------------------------ storage-writing statements
WriteVar(s, field, r) ==
    IF r.err = "" THEN [err |-> "", st |-> [s EXCEPT ![field] = r.val]]
    ELSE [err |-> r.err, st |-> s]

\* mutant: the entry of a fixed account is written instead of the caller's
WriteMapToFixedAccount(s, field, who, r) ==
    IF r.err = "" THEN [err |-> "", st |-> [s EXCEPT ![field]["a1"] = r.val]]
    ELSE [err |-> r.err, st |-> s]

WriteMap(s, field, who, r) ==
    IF r.err = "" THEN [err |-> "", st |-> [s EXCEPT ![field][who] = r.val]]
    ELSE [err |-> r.err, st |-> s]

\* the effect of one statement on storage s, in the call c
Exec(stmt, s, c) ==
    LET me == c.sender IN
    CASE stmt = "token1Balance[msg.sender] -= _amountToken1" ->
            WriteMap(s, "token1Balance", me, sub(s.token1Balance[me], c.argAmountToken1))
      [] stmt = "token2Balance[msg.sender] -= _amountToken2" ->
            WriteMap(s, "token2Balance", me, sub(s.token2Balance[me], c.argAmountToken2))
      [] stmt = "totalToken1 += _amountToken1" ->
            WriteVar(s, "totalToken1", add(s.totalToken1, c.argAmountToken1))
      [] stmt = "totalToken2 += _amountToken2" ->
            WriteVar(s, "totalToken2", add(s.totalToken2, c.argAmountToken2))
      [] stmt = "K = totalToken1.mul(totalToken2)" ->
            WriteVar(s, "K", mul(s.totalToken1, s.totalToken2))
      [] stmt = "totalShares += share" ->
            WriteVar(s, "totalShares", add(s.totalShares, c.share))
      [] stmt = "shares[msg.sender] += share" ->
            WriteMap(s, "shares", me, add(s.shares[me], c.share))
      [] stmt = "shares[msg.sender] -= _share" ->
            WriteMap(s, "shares", me, sub(s.shares[me], c.argShare))
      [] stmt = "totalShares -= _share" ->
            WriteVar(s, "totalShares", sub(s.totalShares, c.argShare))
      [] stmt = "totalToken1 -= amountToken1" ->
            WriteVar(s, "totalToken1", sub(s.totalToken1, c.amountToken1))
      [] stmt = "totalToken2 -= amountToken2" ->
            WriteVar(s, "totalToken2", sub(s.totalToken2, c.amountToken2))
      [] stmt = "token1Balance[msg.sender] += amountToken1" ->
            WriteMap(s, "token1Balance", me, add(s.token1Balance[me], c.amountToken1))
      [] stmt = "token2Balance[msg.sender] += amountToken2" ->
            WriteMap(s, "token2Balance", me, add(s.token2Balance[me], c.amountToken2))
      [] stmt = "token1Balance[msg.sender] = token1Balance[msg.sender].add(_amountToken1)" ->
            WriteMap(s, "token1Balance", me, add(s.token1Balance[me], c.argAmountToken1))
      [] stmt = "token2Balance[msg.sender] = token2Balance[msg.sender].add(_amountToken2)" ->
            WriteMap(s, "token2Balance", me, add(s.token2Balance[me], c.argAmountToken2))

\* the statements body[i..] run one after the other from storage s; the first
\* failure stops the run
RECURSIVE RunAll(_, _, _, _)
RunAll(body, i, s, c) ==
    IF i > Len(body) THEN [err |-> "", st |-> s]
    ELSE LET r == Exec(body[i], s, c)
         IN  IF r.err # "" THEN r ELSE RunAll(body, i + 1, r.st, c)

\* mutant: a failure leaves the writes made so far in place
RevertKeepsWrites(s, snapshot) == s

\* storage after a revert: every write of the call is undone
Revert(s, snapshot) == snapshot

\* ------------------------------------------------------------------- Init
Init ==
    /\ totalShares = 0
    /\ totalToken1 = 0
    /\ totalToken2 = 0
    /\ K = 0
    /\ shares = [a \in Accounts |-> 0]
    /\ token1Balance = [a \in Accounts |-> 0]
    /\ token2Balance = [a \in Accounts |-> 0]
    /\ pc = "idle"
    /\ ip = 0
    /\ call = NoCall
    /\ saved = [totalShares |-> 0, totalToken1 |-> 0, totalToken2 |-> 0, K |-> 0,
                shares |-> [a \in Accounts |-> 0],
                token1Balance |-> [a \in Accounts |-> 0],
                token2Balance |-> [a \in Accounts |-> 0]]
    /\ lastProvide = NoProvide
    /\ lastSwap = NoSwap
    /\ contract = "null"
    /\ Mounted

\* ---------------------------------------------------------------- actions
\* entry of a call c whose modifiers and estimates gave r
Enter(c, r) ==
    /\ pc = "idle"
    /\ saved' = Storage
    /\ call' = [c EXCEPT !.err = r.err]
    /\ IF r.err = "" THEN pc' = "body" /\ ip' = 1
       ELSE pc' = "ret" /\ ip' = 0
    /\ UNCHANGED <<storageVars, lastProvide, lastSwap>>
    /\ UNCHANGED formVars

\* a view function called with c returned r: nothing is written
EnterView(c, r) ==
    /\ pc = "idle"
    /\ lastSwap = NoSwap
    /\ saved' = Storage
    /\ call' = [c EXCEPT !.err = r.err]
    /\ pc' = "ret" /\ ip' = 0
    /\ LET w == RunAll(ViewWrites, 1, Storage, c)
       IN  IF r.err = "" /\ w.err = "" THEN Store(w.st) ELSE UNCHANGED storageVars
    /\ UNCHANGED <<lastProvide, lastSwap>>
    /\ UNCHANGED formVars

\* one statement of the body of the call in flight
RunStatement(body) ==
    /\ pc = "body"
    /\ LET r == Exec(body[ip], Storage, call) IN
         IF r.err = ""
         THEN /\ Store(r.st)
              /\ IF ip < Len(body) THEN pc' = "body" /\ ip' = ip + 1
                 ELSE pc' = "ret" /\ ip' = 0
              /\ UNCHANGED call
         ELSE /\ Store(Revert(r.st, saved))
              /\ pc' = "ret" /\ ip' = 0
              /\ call' = [call EXCEPT !.err = r.err, !.share = 0,
                                      !.amountToken1 = 0, !.amountToken2 = 0]
    /\ UNCHANGED <<saved, lastProvide, lastSwap>>
    /\ UNCHANGED formVars

\* ------------------------------------------------------------ environment
\* The callers and the arguments the environment offers.  They bound the
\* behaviours explored; the contract itself accepts any caller and any uint.
Supply1 == totalToken1 + SumOver(token1Balance, Accounts)
Supply2 == totalToken2 + SumOver(token2Balance, Accounts)

Host == "a1"

\* some account other than the host holds tokens or shares
GuestPresent ==
    \E g \in Accounts \ {Host} :
        shares[g] > 0 \/ token1Balance[g] > 0 \/ token2Balance[g] > 0

\* the host received the big grant: only 0 and BigAmount are offered from then on
WhaleRegime == Supply1 >= BigAmount

\* fewer shares outstanding than one whole share (1.0 scaled by PRECISION)
DustRegime == 0 < totalShares /\ totalShares < PRECISION

\* an account was granted the whole integer range of Token2
FloodRegime == Supply2 >= MaxUint

\* the account still holds that whole grant
Flooded(a) == token2Balance[a] = MaxUint

\* a swap's round trip is being followed: the next call is the swap back
Watching == lastSwap.op # "none"

\* the host always calls; the others only while supplies are small, or while
\* they hold the whole Token2 grant; while a round trip is followed, nobody
\* makes any other call
Calls(a) ==
    /\ ~Watching
    /\ \/ a = Host
       \/ Supply1 <= DuoSupply /\ Supply2 <= DuoSupply /\ ~DustRegime
       \/ Flooded(a)

Amounts == IF WhaleRegime THEN {0, BigAmount} ELSE 0..MaxAmount

\* the amounts offered to swapToken2: an account holding the whole Token2 grant
\* offers all of it
SwapAmounts(a) == IF Flooded(a) THEN {MaxUint} ELSE Amounts

\* the swap that completes the round trip being followed: the same caller
\* pays back, in the other direction, exactly what the swap paid out
SwapsBack(op, a, x) ==
    /\ Watching
    /\ lastSwap.op # op
    /\ lastSwap.sender = a
    /\ lastSwap.amountOut = x

\* the amounts offered to swap op by a
SwapInputs(op, a) ==
    IF Watching THEN {lastSwap.amountOut}
    ELSE IF op = "swapToken2" THEN SwapAmounts(a)
    ELSE Amounts

\* an account holding the whole Token2 grant keeps it out of the pool
Provides(a) == Calls(a) /\ ~Flooded(a)

FaucetAmounts == (0..MaxAmount) \cup {BigAmount, MaxUint}

SupplyCap(a) == IF a = Host /\ ~GuestPresent THEN MaxSupply ELSE DuoSupply

\* small amounts while the supply is under its cap, and one big grant of both
\* tokens to the host of an empty system
FaucetInput(a, x, y) ==
    \/ /\ x <= MaxAmount /\ y <= MaxAmount
       /\ ~WhaleRegime
       /\ Supply1 + x <= SupplyCap(a)
       /\ Supply2 + y <= SupplyCap(a)
    \/ /\ x = BigAmount /\ y = BigAmount
       /\ a = Host
       /\ Supply1 = 0 /\ Supply2 = 0
    \/ /\ x <= MaxAmount /\ y = MaxUint
       /\ a # Host
       /\ totalShares > 0 /\ ~DustRegime
       /\ token1Balance[a] = 0 /\ token2Balance[a] = 0
       /\ Supply1 + x <= DuoSupply /\ Supply2 <= DuoSupply
    \/ /\ x <= MaxAmount /\ y = MaxUint
       /\ Flooded(a)

\* the share quantities a caller asks to burn: nothing, everything, one too
\* many; a lone holder also leaves one share behind or burns a single share
ShareInputs(a) ==
    {x \in {0, 1, shares[a] - 1, shares[a], shares[a] + 1} \cup
           (IF lastProvide.sender = a THEN {lastProvide.share} ELSE {}) :
        /\ x >= 0 /\ x <= MaxUint
        /\ (x = shares[a] - 1 =>
               ~GuestPresent /\ (shares[a] = 100 * PRECISION \/ shares[a] <= MaxSupply + 1))
        /\ (x = 1 /\ shares[a] > 1 => ~GuestPresent /\ shares[a] <= MaxSupply + 1)}

\* the share quantities offered to getWithdrawEstimate: nothing, one, all, one too many
ShareQuotes == {x \in {0, 1, totalShares, totalShares + 1} : x <= MaxUint}

FaucetCall(a, x, y) ==
    /\ pc = "idle"
    /\ Calls(a)
    /\ FaucetInput(a, x, y)
    /\ Enter([NoCall EXCEPT !.op = "faucet", !.sender = a,
                            !.argAmountToken1 = x, !.argAmountToken2 = y],
             Ret(0, 0))

FaucetStep == call.op = "faucet" /\ RunStatement(FaucetBody)

ProvideCall(a, x, y) ==
    /\ pc = "idle"
    /\ Provides(a)
    /\ LET r == provideEntry(Storage, a, x, y) IN
       Enter([NoCall EXCEPT !.op = "provide", !.sender = a, !.argAmountToken1 = x,
                         !.argAmountToken2 = y, !.share = r.ret1], r)

ProvideStep == call.op = "provide" /\ RunStatement(ProvideBody)

WithdrawCall(a, x) ==
    /\ pc = "idle"
    /\ Calls(a)
    /\ LET r == withdrawEntry(Storage, a, x) IN
       Enter([NoCall EXCEPT !.op = "withdraw", !.sender = a, !.argShare = x,
                         !.amountToken1 = r.ret1, !.amountToken2 = r.ret2], r)

WithdrawStep == call.op = "withdraw" /\ RunStatement(WithdrawBody)

SwapToken1Call(a, x) ==
    /\ pc = "idle"
    /\ Calls(a) \/ SwapsBack("swapToken1", a, x)
    /\ LET r == swapToken1Entry(Storage, a, x) IN
       Enter([NoCall EXCEPT !.op = "swapToken1", !.sender = a, !.argAmountToken1 = x,
                         !.amountToken2 = r.ret1], r)

SwapToken1Step == call.op = "swapToken1" /\ RunStatement(SwapToken1Body)

SwapToken2Call(a, x) ==
    /\ pc = "idle"
    /\ Calls(a) \/ SwapsBack("swapToken2", a, x)
    /\ LET r == swapToken2Entry(Storage, a, x) IN
       Enter([NoCall EXCEPT !.op = "swapToken2", !.sender = a, !.argAmountToken2 = x,
                         !.amountToken1 = r.ret1], r)

SwapToken2Step == call.op = "swapToken2" /\ RunStatement(SwapToken2Body)

GetMyHoldingsCall(a) ==
    /\ pc = "idle"
    /\ Calls(a)
    /\ LET r == getMyHoldings(Storage, a) IN
       EnterView([NoCall EXCEPT !.op = "getMyHoldings", !.sender = a,
                             !.amountToken1 = r.ret1, !.amountToken2 = r.ret2,
                             !.share = r.ret3], r)

GetPoolDetailsCall ==
    /\ pc = "idle"
    /\ LET r == getPoolDetails(Storage) IN
       EnterView([NoCall EXCEPT !.op = "getPoolDetails", !.sender = Host,
                             !.amountToken1 = r.ret1, !.amountToken2 = r.ret2,
                             !.share = r.ret3], r)

\* the estimates; none reads msg.sender, so one caller stands for all
GetEquivalentToken1EstimateCall(x) ==
    /\ pc = "idle"
    /\ LET r == getEquivalentToken1Estimate(Storage, x) IN
       EnterView([NoCall EXCEPT !.op = "getEquivalentToken1Estimate", !.sender = Host,
                             !.argAmountToken2 = x, !.reqToken1 = r.ret1], r)

GetEquivalentToken2EstimateCall(x) ==
    /\ pc = "idle"
    /\ LET r == getEquivalentToken2Estimate(Storage, x) IN
       EnterView([NoCall EXCEPT !.op = "getEquivalentToken2Estimate", !.sender = Host,
                             !.argAmountToken1 = x, !.reqToken2 = r.ret1], r)

GetWithdrawEstimateCall(x) ==
    /\ pc = "idle"
    /\ LET r == getWithdrawEstimate(Storage, x) IN
       EnterView([NoCall EXCEPT !.op = "getWithdrawEstimate", !.sender = Host,
                             !.argShare = x, !.amountToken1 = r.ret1,
                             !.amountToken2 = r.ret2], r)

GetSwapToken1EstimateCall(x) ==
    /\ pc = "idle"
    /\ LET r == getSwapToken1Estimate(Storage, x) IN
       EnterView([NoCall EXCEPT !.op = "getSwapToken1Estimate", !.sender = Host,
                             !.argAmountToken1 = x, !.amountToken2 = r.ret1], r)

GetSwapToken2EstimateCall(x) ==
    /\ pc = "idle"
    /\ LET r == getSwapToken2Estimate(Storage, x) IN
       EnterView([NoCall EXCEPT !.op = "getSwapToken2Estimate", !.sender = Host,
                             !.argAmountToken2 = x, !.amountToken1 = r.ret1], r)

GetSwapToken1EstimateGivenToken2Call(x) ==
    /\ pc = "idle"
    /\ LET r == getSwapToken1EstimateGivenToken2(Storage, x) IN
       EnterView([NoCall EXCEPT !.op = "getSwapToken1EstimateGivenToken2", !.sender = Host,
                             !.argAmountToken2 = x, !.amountToken1 = r.ret1], r)

GetSwapToken2EstimateGivenToken1Call(x) ==
    /\ pc = "idle"
    /\ LET r == getSwapToken2EstimateGivenToken1(Storage, x) IN
       EnterView([NoCall EXCEPT !.op = "getSwapToken2EstimateGivenToken1", !.sender = Host,
                             !.argAmountToken1 = x, !.amountToken2 = r.ret1], r)

\* the functions that write storage
Mutating == {"faucet", "provide", "withdraw", "swapToken1", "swapToken2"}

\* the call returns (or its failure is reported) to the caller
Return ==
    /\ pc = "ret"
    /\ pc' = "idle"
    /\ ip' = 0
    /\ call' = NoCall
    /\ saved' = Storage
    /\ lastProvide' =
          IF call.err = "" /\ call.op = "provide"
          THEN [sender |-> call.sender, amountToken1 |-> call.argAmountToken1,
                amountToken2 |-> call.argAmountToken2, share |-> call.share,
                totalShares |-> saved.totalShares, totalToken1 |-> saved.totalToken1,
                totalToken2 |-> saved.totalToken2]
          ELSE IF call.err = "" /\ call.op \in Mutating THEN NoProvide
          ELSE lastProvide
    /\ lastSwap' \in
          {NoSwap} \cup
          (IF call.err = "" /\ call.op = "swapToken1" /\ call.amountToken2 > 0
           THEN {[op |-> call.op, sender |-> call.sender,
                  amountIn |-> call.argAmountToken1, amountOut |-> call.amountToken2]}
           ELSE IF call.err = "" /\ call.op = "swapToken2" /\ call.amountToken1 > 0
           THEN {[op |-> call.op, sender |-> call.sender,
                  amountIn |-> call.argAmountToken2, amountOut |-> call.amountToken1]}
           ELSE {})
    /\ UNCHANGED storageVars
    /\ UNCHANGED formVars

\* a call is entered only between calls: the guard stands before the inputs so
\* that they are drawn in those states only
Next ==
    \/ pc = "idle" /\ \E a \in Accounts, x \in FaucetAmounts, y \in FaucetAmounts : FaucetCall(a, x, y)
    \/ FaucetStep
    \/ pc = "idle" /\ \E a \in Accounts, x \in Amounts, y \in Amounts : ProvideCall(a, x, y)
    \/ ProvideStep
    \/ pc = "idle" /\ \E a \in Accounts : \E x \in ShareInputs(a) : WithdrawCall(a, x)
    \/ WithdrawStep
    \/ pc = "idle" /\ \E a \in Accounts : \E x \in SwapInputs("swapToken1", a) : SwapToken1Call(a, x)
    \/ SwapToken1Step
    \/ pc = "idle" /\ \E a \in Accounts : \E x \in SwapInputs("swapToken2", a) : SwapToken2Call(a, x)
    \/ SwapToken2Step
    \/ pc = "idle" /\ \E a \in Accounts : GetMyHoldingsCall(a)
    \/ pc = "idle" /\ GetPoolDetailsCall
    \/ pc = "idle" /\ \E x \in Amounts : GetEquivalentToken1EstimateCall(x)
    \/ pc = "idle" /\ \E x \in Amounts : GetEquivalentToken2EstimateCall(x)
    \/ pc = "idle" /\ \E x \in ShareQuotes : GetWithdrawEstimateCall(x)
    \/ pc = "idle" /\ \E x \in Amounts : GetSwapToken1EstimateCall(x)
    \/ pc = "idle" /\ \E x \in Amounts : GetSwapToken2EstimateCall(x)
    \/ pc = "idle" /\ \E x \in Amounts : GetSwapToken1EstimateGivenToken2Call(x)
    \/ pc = "idle" /\ \E x \in Amounts : GetSwapToken2EstimateGivenToken1Call(x)
    \/ Return

Spec == Init /\ [][Next]_vars


\* ------------------------------------------------------ reading a behaviour
BodyOf(op) ==
    CASE op = "faucet" -> FaucetBody
      [] op = "provide" -> ProvideBody
      [] op = "withdraw" -> WithdrawBody
      [] op = "swapToken1" -> SwapToken1Body
      [] op = "swapToken2" -> SwapToken2Body

\* no call is in the middle of its writes
AtRest == pc \in {"idle", "ret"}

\* the call just completed, successfully or not, and has not yet returned
Done(op) == pc = "ret" /\ call.op = op
Succeeded(op) == Done(op) /\ call.err = ""
Failed(op) == Done(op) /\ call.err # ""

ErrZeroAmount == "Amount cannot be zero!"
ErrInsufficientBalance == "Insufficient amount"
ErrZeroLiquidity == "Zero Liquidity"
ErrUnequalProportion == "Equivalent value of tokens not provided..."
ErrBelowContributionThreshold == "Asset value less than threshold for contribution!"
ErrInsufficientPoolBalance == "Insufficient pool balance"
ErrShareExceedsTotal == "Share should be less than totalShare"
ErrOverflow == "Panic: arithmetic overflow"

\* the functions every one of which begins with the activePool modifier
Estimates ==
    { "getEquivalentToken1Estimate", "getEquivalentToken2Estimate",
      "getWithdrawEstimate", "getSwapToken1Estimate", "getSwapToken2Estimate",
      "getSwapToken1EstimateGivenToken2", "getSwapToken2EstimateGivenToken1" }

\* a * b fits the unsigned integer type (decided without forming an oversized product)
Fits(a, b) == a = 0 \/ b <= MaxUint \div a

\* the provide call in flight passed both validAmountCheck modifiers
ProvideGuardsPass ==
    /\ call.argAmountToken1 > 0
    /\ call.argAmountToken1 <= saved.token1Balance[call.sender]
    /\ call.argAmountToken2 > 0
    /\ call.argAmountToken2 <= saved.token2Balance[call.sender]

\* the caller's balances are the pre-call balances less the provided amounts
ProvideDebited ==
    /\ token1Balance[call.sender] = saved.token1Balance[call.sender] - call.argAmountToken1
    /\ token2Balance[call.sender] = saved.token2Balance[call.sender] - call.argAmountToken2

\* ------------------------------------------------------------------- claims

\* C1: after every completed operation (faucet, provide, withdraw, swapToken1,
\* swapToken2, by any account), totalShares = 0 exactly when both reserves are 0.
C1_InactiveIffEmpty ==
    AtRest => ((totalShares = 0) <=> (totalToken1 = 0 /\ totalToken2 = 0))

\* a withdraw burned the last shares of an active pool and emptied both reserves
C1_Witness ==
    /\ Succeeded("withdraw")
    /\ saved.totalShares > 0 /\ saved.totalToken1 > 0 /\ saved.totalToken2 > 0
    /\ totalShares = 0 /\ totalToken1 = 0 /\ totalToken2 = 0

\* C2: after every completed operation the shareBalance of all accounts sums
\* to totalShares.
C2_SharesSumToTotal ==
    AtRest => SumOver(shares, Accounts) = totalShares

\* a provide completed that left every account holding shares
C2_Witness ==
    /\ Succeeded("provide")
    /\ \A a \in Accounts : shares[a] > 0

\* C3: a provide, withdraw, swapToken1 or swapToken2 call that fails (guard,
\* UnequalProportion, BelowContributionThreshold, arithmetic failure) leaves the
\* pool state and every account's balances as they were before the call.
C3_FailureChangesNothing ==
    \A op \in {"provide", "withdraw", "swapToken1", "swapToken2"} :
        Failed(op) => Storage = saved

\* a genesis provide failed in K = totalToken1.mul(totalToken2), after the
\* debits and the reserve increases had been written
C3_Witness ==
    /\ Failed("provide")
    /\ call.err = ErrOverflow
    /\ saved.totalShares = 0
    /\ ProvideGuardsPass

\* C4: inside provide the caller's token balances are debited before
\* totalShares or the caller's shareBalance grows: whenever, during a provide,
\* totalShares or the caller's shares already include the issued share, both
\* balances are already reduced by the provided amounts.
C4_DebitBeforeShareCredit ==
    (pc \in {"body", "ret"} /\ call.op = "provide" /\ call.err = "") =>
        /\ (shares[call.sender] # saved.shares[call.sender]) => ProvideDebited
        /\ (totalShares # saved.totalShares) => ProvideDebited

\* mid-provide: the balances are debited, the reserves and K updated, and the
\* shares are not yet issued
C4_Witness ==
    /\ pc = "body" /\ call.op = "provide"
    /\ ProvideDebited
    /\ totalToken1 = saved.totalToken1 + call.argAmountToken1
    /\ shares[call.sender] = saved.shares[call.sender]
    /\ totalShares = saved.totalShares

\* C5: immediately after every successful provide and every successful
\* withdraw, K is the exact product of the new reserves.
C5_KIsProduct ==
    (Succeeded("provide") \/ Succeeded("withdraw")) => K = totalToken1 * totalToken2

\* a withdraw recomputed K on a pool whose K had drifted from the product
\* of its reserves (after a swap)
C5_Witness ==
    /\ Succeeded("withdraw")
    /\ saved.K # saved.totalToken1 * saved.totalToken2
    /\ totalShares > 0
    /\ K = totalToken1 * totalToken2

DebitStatements ==
    { "token1Balance[msg.sender] -= _amountToken1",
      "token2Balance[msg.sender] -= _amountToken2",
      "shares[msg.sender] -= _share",
      "totalShares -= _share",
      "totalToken1 -= amountToken1",
      "totalToken2 -= amountToken2" }

\* C6: in every reachable state, the states between the writes of one
\* operation included, the reserves, totalShares and every account's token and
\* share balances are non-negative; and no subtraction about to be executed
\* takes more than the value it is subtracted from.
C6_NonNegative ==
    /\ totalToken1 >= 0 /\ totalToken2 >= 0 /\ totalShares >= 0
    /\ \A a \in Accounts :
          token1Balance[a] >= 0 /\ token2Balance[a] >= 0 /\ shares[a] >= 0
    /\ (pc = "body" /\ BodyOf(call.op)[ip] \in DebitStatements) =>
          Exec(BodyOf(call.op)[ip], Storage, call).err = ""

\* mid-swap: the caller's whole token1 balance has been debited and the
\* output reserve is about to be reduced
C6_Witness ==
    /\ pc = "body" /\ call.op = "swapToken1"
    /\ saved.token1Balance[call.sender] > 0
    /\ token1Balance[call.sender] = 0
    /\ BodyOf(call.op)[ip] = "totalToken2 -= amountToken2"
    /\ call.amountToken2 > 0


\* the shares provide computes for the call in flight, in unbounded arithmetic
\* (used only where both products fit)
Share1 == (saved.totalShares * call.argAmountToken1) \div saved.totalToken1
Share2 == (saved.totalShares * call.argAmountToken2) \div saved.totalToken2

SharesFit ==
    /\ Fits(saved.totalShares, call.argAmountToken1)
    /\ Fits(saved.totalShares, call.argAmountToken2)

\* what a successful provide that issued n shares has written
ProvideApplied(n) ==
    /\ call.share = n
    /\ totalToken1 = saved.totalToken1 + call.argAmountToken1
    /\ totalToken2 = saved.totalToken2 + call.argAmountToken2
    /\ totalShares = saved.totalShares + n
    /\ shares[call.sender] = saved.shares[call.sender] + n
    /\ ProvideDebited

\* C7 as stated: on an inactive pool, provide(amount1, amount2) with both
\* amounts > 0 and within the caller's balances succeeds and issues exactly
\* 100 * PRECISION shares whatever the ratio; afterwards totalToken1 = amount1,
\* totalToken2 = amount2, K = amount1 * amount2, totalShares = 100 * PRECISION
\* and the caller's shareBalance grew by 100 * PRECISION.
C7_AsStated ==
    (Done("provide") /\ saved.totalShares = 0 /\ ProvideGuardsPass) =>
        /\ call.err = ""
        /\ ProvideApplied(100 * PRECISION)
        /\ totalToken1 = call.argAmountToken1
        /\ totalToken2 = call.argAmountToken2
        /\ totalShares = 100 * PRECISION
        /\ K = call.argAmountToken1 * call.argAmountToken2

\* C7 amended: the same, provided amount1 * amount2 fits the unsigned integer
\* type; when it does not, the provide fails with an arithmetic overflow and
\* changes nothing.
C7_GenesisProvide ==
    (Done("provide") /\ saved.totalShares = 0 /\ ProvideGuardsPass) =>
        IF Fits(call.argAmountToken1, call.argAmountToken2)
        THEN /\ call.err = ""
             /\ ProvideApplied(100 * PRECISION)
             /\ totalToken1 = call.argAmountToken1
             /\ totalToken2 = call.argAmountToken2
             /\ totalShares = 100 * PRECISION
             /\ K = call.argAmountToken1 * call.argAmountToken2
        ELSE call.err = ErrOverflow /\ Storage = saved

\* a genesis provide of unequal amounts succeeded
C7_Witness ==
    /\ Succeeded("provide")
    /\ saved.totalShares = 0
    /\ call.argAmountToken1 # call.argAmountToken2
    /\ call.share = 100 * PRECISION

\* C8 as stated: on an active pool, provide computes
\* share1 = floor(totalShares * amount1 / totalToken1) and
\* share2 = floor(totalShares * amount2 / totalToken2); it fails with
\* UnequalProportion whenever share1 # share2, and when it succeeds it issues
\* share = share1, adds the amounts to the reserves and debits the caller.
C8_AsStated ==
    (Done("provide") /\ saved.totalShares > 0 /\ ProvideGuardsPass) =>
        /\ (Share1 # Share2) => call.err = ErrUnequalProportion
        /\ (call.err = "") => Share1 = Share2 /\ ProvideApplied(Share1)

\* C8 amended: the same, provided neither totalShares * amount1 nor
\* totalShares * amount2 overflows the unsigned integer type; when one does,
\* the provide fails with an arithmetic overflow.
C8_ActiveProvide ==
    (Done("provide") /\ saved.totalShares > 0 /\ ProvideGuardsPass) =>
        IF SharesFit
        THEN /\ (Share1 # Share2) => call.err = ErrUnequalProportion
             /\ (call.err = "") => Share1 = Share2 /\ ProvideApplied(Share1)
        ELSE call.err = ErrOverflow

\* a provide on an active pool was rejected for unequal proportion
C8_Witness ==
    /\ Failed("provide")
    /\ saved.totalShares > 0 /\ ProvideGuardsPass /\ SharesFit
    /\ Share1 # Share2
    /\ call.err = ErrUnequalProportion

\* C9: a provide whose two truncated shares are both 0 on an active pool fails
\* with BelowContributionThreshold; no successful provide issues 0 shares.
C9_ZeroShareRejected ==
    /\ (/\ Done("provide") /\ saved.totalShares > 0 /\ ProvideGuardsPass
        /\ SharesFit /\ Share1 = 0 /\ Share2 = 0)
           => call.err = ErrBelowContributionThreshold
    /\ Succeeded("provide") =>
           /\ call.share > 0
           /\ totalShares > saved.totalShares
           /\ shares[call.sender] > saved.shares[call.sender]

\* a provide of positive amounts was rejected because it would issue 0 shares
C9_Witness ==
    /\ Failed("provide")
    /\ saved.totalShares > 0 /\ ProvideGuardsPass
    /\ SharesFit /\ Share1 = 0 /\ Share2 = 0
    /\ call.err = ErrBelowContributionThreshold

\* the error the amount check of quantity q against balance b should give
AmountError(q, b) ==
    IF q = 0 THEN ErrZeroAmount
    ELSE IF q > b THEN ErrInsufficientBalance
    ELSE ""

\* the quantity of the withdraw or swap call in flight and the balance it is
\* checked against
Quantity ==
    CASE call.op = "withdraw" -> call.argShare
      [] call.op = "swapToken1" -> call.argAmountToken1
      [] call.op = "swapToken2" -> call.argAmountToken2

RelevantBalance ==
    CASE call.op = "withdraw" -> saved.shares[call.sender]
      [] call.op = "swapToken1" -> saved.token1Balance[call.sender]
      [] call.op = "swapToken2" -> saved.token2Balance[call.sender]

\* C10 as stated: provide (each amount against token1Balance / token2Balance),
\* withdraw (share against shareBalance), swapToken1 (against token1Balance)
\* and swapToken2 (against token2Balance) fail with ZeroAmount when the
\* quantity is 0 and with InsufficientBalance when it exceeds that balance.
C10_AsStated ==
    /\ Done("provide") =>
          LET e1 == AmountError(call.argAmountToken1, saved.token1Balance[call.sender])
              e2 == AmountError(call.argAmountToken2, saved.token2Balance[call.sender])
          IN  ({e1, e2} # {""}) => call.err \in ({e1, e2} \ {""})
    /\ \A op \in {"withdraw", "swapToken1", "swapToken2"} :
          Done(op) =>
              (AmountError(Quantity, RelevantBalance) # "" =>
                   call.err = AmountError(Quantity, RelevantBalance))

\* C10 amended: provide reports the first failing check, amount1 before
\* amount2; withdraw, swapToken1 and swapToken2 fail with ZeroAmount or
\* InsufficientBalance in this way on an active pool (on an inactive pool they
\* fail before the quantity is checked).
C10_AmountGuards ==
    /\ Done("provide") =>
          LET e1 == AmountError(call.argAmountToken1, saved.token1Balance[call.sender])
              e2 == AmountError(call.argAmountToken2, saved.token2Balance[call.sender])
          IN  /\ (e1 # "") => call.err = e1
              /\ (e1 = "" /\ e2 # "") => call.err = e2
    /\ \A op \in {"withdraw", "swapToken1", "swapToken2"} :
          (Done(op) /\ saved.totalShares > 0) =>
              (AmountError(Quantity, RelevantBalance) # "" =>
                   call.err = AmountError(Quantity, RelevantBalance))

\* on an active pool a withdraw of one share more than the caller holds was
\* rejected for insufficient balance
C10_Witness ==
    /\ Failed("withdraw")
    /\ saved.totalShares > 0
    /\ saved.shares[call.sender] > 0
    /\ call.argShare = saved.shares[call.sender] + 1
    /\ call.err = ErrInsufficientBalance

\* C11 as stated: while the pool is inactive every estimate, withdraw,
\* swapToken1 and swapToken2 fail with ZeroLiquidity, and provide is the only
\* mutating operation that can be called successfully.
C11_AsStated ==
    (pc = "ret" /\ saved.totalShares = 0) =>
        /\ call.op \in Estimates \cup {"withdraw", "swapToken1", "swapToken2"}
              => call.err = ErrZeroLiquidity
        /\ (call.op \in Mutating /\ call.err = "") => call.op = "provide"

\* C11 amended: while the pool is inactive every estimate, withdraw, swapToken1
\* and swapToken2 fail with ZeroLiquidity; the mutating operations that can
\* succeed are provide and faucet, and faucet leaves the pool inactive.
C11_InactivePool ==
    (pc = "ret" /\ saved.totalShares = 0) =>
        /\ call.op \in Estimates \cup {"withdraw", "swapToken1", "swapToken2"}
              => call.err = ErrZeroLiquidity
        /\ (call.op \in Mutating /\ call.err = "") => call.op \in {"provide", "faucet"}
        /\ Succeeded("faucet") => totalShares = 0

\* on an inactive pool a swap of a positive amount the caller holds was
\* rejected for zero liquidity
C11_Witness ==
    /\ Failed("swapToken1")
    /\ saved.totalShares = 0
    /\ call.argAmountToken1 > 0
    /\ call.argAmountToken1 <= saved.token1Balance[call.sender]
    /\ call.err = ErrZeroLiquidity

\* C12: a successful withdraw(share) returns what getWithdrawEstimate(share)
\* returns in the pre-state, amount_i = floor(share * totalToken_i / totalShares);
\* it reduces the caller's shares and totalShares by share, the reserves by the
\* amounts, and credits the caller's balances with the amounts.
C12_WithdrawEffects ==
    Succeeded("withdraw") =>
        LET me == call.sender
            out1 == (call.argShare * saved.totalToken1) \div saved.totalShares
            out2 == (call.argShare * saved.totalToken2) \div saved.totalShares
            est == getWithdrawEstimate(saved, call.argShare)
        IN  /\ est.err = "" /\ est.ret1 = out1 /\ est.ret2 = out2
            /\ call.amountToken1 = out1 /\ call.amountToken2 = out2
            /\ shares[me] = saved.shares[me] - call.argShare
            /\ totalShares = saved.totalShares - call.argShare
            /\ totalToken1 = saved.totalToken1 - out1
            /\ totalToken2 = saved.totalToken2 - out2
            /\ token1Balance[me] = saved.token1Balance[me] + out1
            /\ token2Balance[me] = saved.token2Balance[me] + out2

\* a withdraw of part of the shares paid out different amounts of the two tokens
C12_Witness ==
    /\ Succeeded("withdraw")
    /\ call.argShare < saved.totalShares
    /\ call.amountToken1 > 0
    /\ call.amountToken1 # call.amountToken2

\* the withdraw just completed burned exactly the shares that the caller's
\* non-genesis provide issued, and no call changed storage in between
RoundTrip ==
    /\ Succeeded("withdraw")
    /\ lastProvide.sender = call.sender
    /\ lastProvide.share = call.argShare
    /\ lastProvide.totalShares > 0

\* C13: a withdraw(share) right after the non-genesis provide(amount1, amount2)
\* that issued share returns out1 <= amount1 and out2 <= amount2.
C13_RoundTripNoGain ==
    RoundTrip =>
        /\ call.amountToken1 <= lastProvide.amountToken1
        /\ call.amountToken2 <= lastProvide.amountToken2

\* a round trip on an active pool returned less Token1 than was provided
C13_Witness ==
    /\ RoundTrip
    /\ call.amountToken1 < lastProvide.amountToken1
    /\ call.amountToken2 <= lastProvide.amountToken2

\* C14 as stated: that withdraw restores totalShares, totalToken1 and
\* totalToken2 to their pre-provide values.
C14_AsStated ==
    RoundTrip =>
        /\ totalShares = lastProvide.totalShares
        /\ totalToken1 = lastProvide.totalToken1
        /\ totalToken2 = lastProvide.totalToken2

\* C14 amended: that withdraw restores totalShares; each reserve ends at its
\* pre-provide value plus what truncation withheld (amount provided less amount
\* returned), so it is restored only when the whole amount is returned.
C14_RoundTripRestores ==
    RoundTrip =>
        /\ totalShares = lastProvide.totalShares
        /\ totalToken1 =
              lastProvide.totalToken1 + (lastProvide.amountToken1 - call.amountToken1)
        /\ totalToken2 =
              lastProvide.totalToken2 + (lastProvide.amountToken2 - call.amountToken2)
        /\ totalToken1 >= lastProvide.totalToken1
        /\ totalToken2 >= lastProvide.totalToken2

\* a round trip restored the pool exactly
C14_Witness ==
    /\ RoundTrip
    /\ totalShares = lastProvide.totalShares
    /\ totalToken1 = lastProvide.totalToken1
    /\ totalToken2 = lastProvide.totalToken2

\* the output of swapToken1 as the documentation states it
Swap1Naive == saved.totalToken2 - (saved.K \div (saved.totalToken1 + call.argAmountToken1))
Swap1Out == IF Swap1Naive = saved.totalToken2 THEN Swap1Naive - 1 ELSE Swap1Naive
Swap2Naive == saved.totalToken1 - (saved.K \div (saved.totalToken2 + call.argAmountToken2))
Swap2Out == IF Swap2Naive = saved.totalToken1 THEN Swap2Naive - 1 ELSE Swap2Naive

\* C15: a successful swapToken1(amountIn) returns what getSwapToken1Estimate
\* returns in the pre-state, totalToken2 - floor(K / (totalToken1 + amountIn)),
\* less 1 when that equals totalToken2; it debits amountIn from the caller's
\* token1Balance, adds it to totalToken1, takes amountOut from totalToken2 and
\* credits it to the caller's token2Balance.
C15_SwapToken1Effects ==
    Succeeded("swapToken1") =>
        LET me == call.sender
            est == getSwapToken1Estimate(saved, call.argAmountToken1)
        IN  /\ est.err = "" /\ est.ret1 = Swap1Out
            /\ call.amountToken2 = Swap1Out
            /\ token1Balance[me] = saved.token1Balance[me] - call.argAmountToken1
            /\ totalToken1 = saved.totalToken1 + call.argAmountToken1
            /\ totalToken2 = saved.totalToken2 - Swap1Out
            /\ token2Balance[me] = saved.token2Balance[me] + Swap1Out

\* a swap of Token1 paid out some Token2 and left some in the pool
C15_Witness ==
    /\ Succeeded("swapToken1")
    /\ call.amountToken2 > 0
    /\ Swap1Naive < saved.totalToken2
    /\ totalToken2 = saved.totalToken2 - call.amountToken2

\* C16: swapToken1 and swapToken2 leave K, totalShares and every account's
\* shares unchanged, in each state of the call.
C16_SwapFrame ==
    call.op \in {"swapToken1", "swapToken2"} =>
        /\ K = saved.K
        /\ totalShares = saved.totalShares
        /\ shares = saved.shares

\* a swap moved the reserves and K is no longer their product
C16_Witness ==
    /\ Succeeded("swapToken2")
    /\ call.amountToken1 > 0
    /\ K = saved.K
    /\ K # totalToken1 * totalToken2

C18_AsStated ==
    /\ Succeeded("swapToken1") =>
          K - totalToken1 < totalToken1 * totalToken2 /\ totalToken1 * totalToken2 <= K
    /\ Succeeded("swapToken2") =>
          K - totalToken2 < totalToken1 * totalToken2 /\ totalToken1 * totalToken2 <= K

\* C18 amended: the bounds hold after every successful swap whose output the
\* depletion guard did not reduce; after one it did reduce, the output reserve
\* is 1 and the product is the input reserve, which is greater than K.
C18_ProductNearK ==
    /\ Succeeded("swapToken1") =>
          IF Swap1Naive # saved.totalToken2
          THEN /\ K - totalToken1 < totalToken1 * totalToken2
               /\ totalToken1 * totalToken2 <= K
          ELSE totalToken2 = 1 /\ totalToken1 * totalToken2 > K
    /\ Succeeded("swapToken2") =>
          IF Swap2Naive # saved.totalToken1
          THEN /\ K - totalToken2 < totalToken1 * totalToken2
               /\ totalToken1 * totalToken2 <= K
          ELSE totalToken1 = 1 /\ totalToken1 * totalToken2 > K

\* a swap left the product of the reserves strictly below K
C18_Witness ==
    /\ Succeeded("swapToken1")
    /\ Swap1Naive # saved.totalToken2
    /\ call.amountToken2 > 0
    /\ totalToken1 * totalToken2 < K

\* C19 as stated: on an active pool getSwapToken1EstimateGivenToken2(amountOut)
\* fails with InsufficientPoolBalance when amountOut >= totalToken2 and
\* otherwise returns floor(K / (totalToken2 - amountOut)) - totalToken1, never
\* failing for another reason.
C19_AsStated ==
    (Done("getSwapToken1EstimateGivenToken2") /\ saved.totalShares > 0) =>
        IF call.argAmountToken2 >= saved.totalToken2
        THEN call.err = ErrInsufficientPoolBalance
        ELSE /\ call.err = ""
             /\ call.amountToken1 =
                   (saved.K \div (saved.totalToken2 - call.argAmountToken2))
                      - saved.totalToken1

\* C20 as stated: the amount getSwapToken1EstimateGivenToken2(x) returns for
\* 0 < x < totalToken2, when swapped with swapToken1, pays out at least x
\* Token2; and the mirror for getSwapToken2EstimateGivenToken1 and swapToken2.
C20_AsStated ==
    /\ Succeeded("swapToken1") =>
          \A x \in 1..(saved.totalToken2 - 1) :
             LET r == getSwapToken1EstimateGivenToken2(saved, x)
             IN  (r.err = "" /\ r.ret1 = call.argAmountToken1) => call.amountToken2 >= x
    /\ Succeeded("swapToken2") =>
          \A x \in 1..(saved.totalToken1 - 1) :
             LET r == getSwapToken2EstimateGivenToken1(saved, x)
             IN  (r.err = "" /\ r.ret1 = call.argAmountToken2) => call.amountToken1 >= x

\* C21 as stated: on an active pool, provide(amount1,
\* getEquivalentToken2Estimate(amount1)) with both amounts > 0 and within
\* balance does not fail with UnequalProportion; and the mirror for
\* getEquivalentToken1Estimate.
C21_AsStated ==
    (Done("provide") /\ saved.totalShares > 0 /\ ProvideGuardsPass) =>
        LET e2 == getEquivalentToken2Estimate(saved, call.argAmountToken1)
            e1 == getEquivalentToken1Estimate(saved, call.argAmountToken2)
        IN  /\ (e2.err = "" /\ e2.ret1 = call.argAmountToken2)
                  => call.err # ErrUnequalProportion
            /\ (e1.err = "" /\ e1.ret1 = call.argAmountToken1)
                  => call.err # ErrUnequalProportion

\* what faucet is to leave alone: the pool, all shares, every other account
FaucetFrame ==
    /\ totalShares = saved.totalShares /\ totalToken1 = saved.totalToken1
    /\ totalToken2 = saved.totalToken2 /\ K = saved.K
    /\ shares = saved.shares
    /\ \A b \in Accounts \ {call.sender} :
          /\ token1Balance[b] = saved.token1Balance[b]
          /\ token2Balance[b] = saved.token2Balance[b]

FaucetCredited ==
    /\ token1Balance[call.sender] = saved.token1Balance[call.sender] + call.argAmountToken1
    /\ token2Balance[call.sender] = saved.token2Balance[call.sender] + call.argAmountToken2

\* C22 as stated: faucet(amount1, amount2) succeeds for any amounts in any
\* pool state, increases the caller's token1Balance by amount1 and
\* token2Balance by amount2, and changes nothing else.
C22_AsStated ==
    Done("faucet") => call.err = "" /\ FaucetCredited /\ FaucetFrame

\* C22 amended: the same, provided neither balance would exceed the largest
\* unsigned integer; when one would, faucet fails with an arithmetic overflow
\* and changes nothing.
C22_FaucetEffects ==
    Done("faucet") =>
        IF /\ saved.token1Balance[call.sender] + call.argAmountToken1 <= MaxUint
           /\ saved.token2Balance[call.sender] + call.argAmountToken2 <= MaxUint
        THEN call.err = "" /\ FaucetCredited /\ FaucetFrame
        ELSE call.err = ErrOverflow /\ Storage = saved

\* faucet credited one token only, on an active pool
C22_Witness ==
    /\ Succeeded("faucet")
    /\ saved.totalShares > 0
    /\ call.argAmountToken1 = 0 /\ call.argAmountToken2 > 0
    /\ token2Balance[call.sender] > saved.token2Balance[call.sender]

Views == Estimates \cup {"getMyHoldings", "getPoolDetails"}

\* C23: getMyHoldings, getPoolDetails, the two equivalent-amount estimates,
\* getWithdrawEstimate and the four swap estimates leave the pool and every
\* account's balances and shares as they were, whether they return or fail.
C23_ViewsChangeNothing ==
    (pc = "ret" /\ call.op \in Views) => Storage = saved

\* an estimate returned a value on a pool whose K differs from the product of
\* its reserves
C23_Witness ==
    /\ Succeeded("getSwapToken2Estimate")
    /\ call.amountToken1 > 0
    /\ K # totalToken1 * totalToken2
    /\ Storage = saved

\* C24: the pool starts (and, whenever inactive, is) at totalShares =
\* totalToken1 = totalToken2 = K = 0; totalShares leaves 0 only inside a
\* provide, and a successful provide on an inactive pool issues 100 * PRECISION
\* shares; totalShares returns to 0 only inside a withdraw of all outstanding
\* shares, after which any provide is again a genesis provide.
C24_Lifecycle ==
    /\ (AtRest /\ totalShares = 0) => totalToken1 = 0 /\ totalToken2 = 0 /\ K = 0
    /\ (saved.totalShares = 0 /\ totalShares > 0) => call.op = "provide"
    /\ (Succeeded("provide") /\ saved.totalShares = 0) =>
           call.share = 100 * PRECISION /\ totalShares = 100 * PRECISION
    /\ Succeeded("provide") => totalShares > 0
    /\ (saved.totalShares > 0 /\ totalShares = 0) =>
           call.op = "withdraw" /\ call.argShare = saved.totalShares
    /\ (Succeeded("withdraw") /\ totalShares = 0) =>
           \A x \in 1..MaxAmount, y \in 1..MaxAmount :
               provideShare(Storage, x, y) = Ok(100 * PRECISION)

\* a withdraw burned the last outstanding shares and the caller holds both
\* tokens again
C24_Witness ==
    /\ Succeeded("withdraw")
    /\ saved.totalShares > 0 /\ totalShares = 0
    /\ totalToken1 = 0 /\ totalToken2 = 0 /\ K = 0
    /\ token1Balance[call.sender] > 0 /\ token2Balance[call.sender] > 0

\* C25: inside withdraw the writes happen in the order: the caller's shares,
\* totalShares, the two reserves, K, and only then the caller's balances; in no
\* intermediate state has the caller been credited while still holding the
\* burned shares.
C25_WithdrawOrder ==
    (pc = "body" /\ call.op = "withdraw") =>
        LET me == call.sender IN
        /\ shares[me] =
              IF ip >= 2 THEN saved.shares[me] - call.argShare ELSE saved.shares[me]
        /\ totalShares =
              IF ip >= 3 THEN saved.totalShares - call.argShare ELSE saved.totalShares
        /\ totalToken1 =
              IF ip >= 4 THEN saved.totalToken1 - call.amountToken1 ELSE saved.totalToken1
        /\ totalToken2 =
              IF ip >= 5 THEN saved.totalToken2 - call.amountToken2 ELSE saved.totalToken2
        /\ K = IF ip >= 6 THEN totalToken1 * totalToken2 ELSE saved.K
        /\ token1Balance[me] =
              IF ip >= 7 THEN saved.token1Balance[me] + call.amountToken1
              ELSE saved.token1Balance[me]
        /\ token2Balance[me] = saved.token2Balance[me]
        /\ (token1Balance[me] > saved.token1Balance[me]) =>
              /\ shares[me] = saved.shares[me] - call.argShare
              /\ totalShares = saved.totalShares - call.argShare

\* mid-withdraw: shares burned, reserves reduced, K recomputed, and the caller
\* not yet credited
C25_Witness ==
    /\ pc = "body" /\ call.op = "withdraw" /\ ip = 6
    /\ call.amountToken1 > 0 /\ call.amountToken2 > 0
    /\ shares[call.sender] < saved.shares[call.sender]
    /\ totalToken1 < saved.totalToken1
    /\ token1Balance[call.sender] = saved.token1Balance[call.sender]

\* C26 as stated: on an active pool getWithdrawEstimate(share) fails with
\* ShareExceedsTotal exactly when share > totalShares, and for every
\* share <= totalShares returns (floor(share * totalToken1 / totalShares),
\* floor(share * totalToken2 / totalShares)).
C26_AsStated ==
    (Done("getWithdrawEstimate") /\ saved.totalShares > 0) =>
        IF call.argShare > saved.totalShares
        THEN call.err = ErrShareExceedsTotal
        ELSE /\ call.err = ""
             /\ call.amountToken1 =
                   (call.argShare * saved.totalToken1) \div saved.totalShares
             /\ call.amountToken2 =
                   (call.argShare * saved.totalToken2) \div saved.totalShares

\* C26 amended: the same, provided share * totalToken1 and share * totalToken2
\* fit the unsigned integer type; when one does not, the estimate fails with an
\* arithmetic overflow.
C26_WithdrawEstimate ==
    (Done("getWithdrawEstimate") /\ saved.totalShares > 0) =>
        IF call.argShare > saved.totalShares
        THEN call.err = ErrShareExceedsTotal
        ELSE IF Fits(call.argShare, saved.totalToken1) /\ Fits(call.argShare, saved.totalToken2)
        THEN /\ call.err = ""
             /\ call.amountToken1 =
                   (call.argShare * saved.totalToken1) \div saved.totalShares
             /\ call.amountToken2 =
                   (call.argShare * saved.totalToken2) \div saved.totalShares
        ELSE call.err = ErrOverflow

\* an estimate for one share more than exist was rejected
C26_Witness ==
    /\ Failed("getWithdrawEstimate")
    /\ saved.totalShares > 0
    /\ call.argShare = saved.totalShares + 1
    /\ call.err = ErrShareExceedsTotal

\* storage with the roles of Token1 and Token2 exchanged
Mirror(s) ==
    [s EXCEPT !.totalToken1 = s.totalToken2, !.totalToken2 = s.totalToken1,
              !.token1Balance = s.token2Balance, !.token2Balance = s.token1Balance]

\* the call with the roles of Token1 and Token2 exchanged
MirrorCall(c) ==
    [c EXCEPT !.argAmountToken1 = c.argAmountToken2, !.argAmountToken2 = c.argAmountToken1,
              !.amountToken1 = c.amountToken2, !.amountToken2 = c.amountToken1]

\* the outcome [err, out, st] of a whole swap: entry checks, then the body
SwapOutcome(entry, body, s, c) ==
    IF entry.err # "" THEN [err |-> entry.err, out |-> 0, st |-> s]
    ELSE LET run == RunAll(body, 1, s, c)
         IN  IF run.err # "" THEN [err |-> run.err, out |-> 0, st |-> s]
             ELSE [err |-> "", out |-> entry.ret1, st |-> run.st]

InRange ==
    /\ {totalShares, totalToken1, totalToken2, K} \subseteq 0..MaxUint
    /\ \A a \in Accounts :
          {shares[a], token1Balance[a], token2Balance[a]} \subseteq 0..MaxUint

\* C28: an overflow of an addition or multiplication in faucet, provide,
\* withdraw or a swap makes the call fail and leaves storage as it was at
\* entry; what a successful call stores is the exact sum or product, never a
\* wrapped-around value.
C28_OverflowFails ==
    /\ InRange
    /\ (pc = "ret" /\ call.err = ErrOverflow) => Storage = saved
    /\ Done("faucet") =>
          LET me == call.sender
              fits == /\ saved.token1Balance[me] + call.argAmountToken1 <= MaxUint
                      /\ saved.token2Balance[me] + call.argAmountToken2 <= MaxUint
          IN  /\ ~fits => call.err = ErrOverflow
              /\ call.err = "" => fits /\ FaucetCredited
    /\ Succeeded("provide") =>
          /\ Fits(totalToken1, totalToken2) /\ K = totalToken1 * totalToken2
          /\ totalToken1 = saved.totalToken1 + call.argAmountToken1
          /\ totalToken2 = saved.totalToken2 + call.argAmountToken2
          /\ totalShares = saved.totalShares + call.share
    /\ Succeeded("withdraw") =>
          /\ Fits(call.argShare, saved.totalToken1) /\ Fits(call.argShare, saved.totalToken2)
          /\ token1Balance[call.sender] =
                saved.token1Balance[call.sender] + call.amountToken1
          /\ token2Balance[call.sender] =
                saved.token2Balance[call.sender] + call.amountToken2
    /\ Succeeded("swapToken1") =>
          /\ totalToken1 = saved.totalToken1 + call.argAmountToken1
          /\ token2Balance[call.sender] =
                saved.token2Balance[call.sender] + call.amountToken2
    /\ Succeeded("swapToken2") =>
          /\ totalToken2 = saved.totalToken2 + call.argAmountToken2
          /\ token1Balance[call.sender] =
                saved.token1Balance[call.sender] + call.amountToken1

\* a swap was undone because crediting its payout would exceed the largest
\* integer: the caller already held that much Token2
C28_Witness ==
    /\ Failed("swapToken1")
    /\ call.err = ErrOverflow
    /\ saved.token2Balance[call.sender] = MaxUint
    /\ call.argAmountToken1 > 0
    /\ call.argAmountToken1 <= saved.token1Balance[call.sender]
    /\ saved.totalToken1 + call.argAmountToken1 <= MaxUint
    /\ Storage = saved

SavedSupply1 == saved.totalToken1 + SumOver(saved.token1Balance, Accounts)
SavedSupply2 == saved.totalToken2 + SumOver(saved.token2Balance, Accounts)

\* C29: for each token, the accounts' balances plus the pool reserve are left
\* unchanged by every provide, withdraw, swapToken1 and swapToken2, successful
\* or failed, and change only through a successful faucet, by exactly the
\* fauceted amount.
C29_Conservation ==
    pc = "ret" =>
        IF Succeeded("faucet")
        THEN /\ Supply1 = SavedSupply1 + call.argAmountToken1
             /\ Supply2 = SavedSupply2 + call.argAmountToken2
        ELSE Supply1 = SavedSupply1 /\ Supply2 = SavedSupply2

\* a swap moved tokens between the pool and one of two Token2 holders
C29_Witness ==
    /\ Succeeded("swapToken2")
    /\ call.amountToken1 > 0
    /\ \E b \in Accounts \ {call.sender} : token2Balance[b] > 0
    /\ Supply1 = SavedSupply1 /\ Supply2 = SavedSupply2

\* C30: faucet, provide, withdraw, swapToken1 and swapToken2 called by one
\* account never change the token1Balance, token2Balance or shares of another
\* account, in any state of the call.
C30_OthersUntouched ==
    call.op \in Mutating =>
        \A b \in Accounts \ {call.sender} :
            /\ token1Balance[b] = saved.token1Balance[b]
            /\ token2Balance[b] = saved.token2Balance[b]
            /\ shares[b] = saved.shares[b]

\* a withdraw by one account completed while another held shares and tokens
C30_Witness ==
    /\ Succeeded("withdraw")
    /\ call.amountToken1 > 0
    /\ \E b \in Accounts \ {call.sender} :
          /\ shares[b] > 0 /\ token2Balance[b] > 0
          /\ shares[b] = saved.shares[b]
          /\ token2Balance[b] = saved.token2Balance[b]

\* the call in flight is a swap on an active pool of 1 <= amount <= the caller's
\* balance of the token paid in
SwapWithinBalance(op) ==
    /\ Done(op)
    /\ saved.totalShares > 0
    /\ 1 <= Quantity /\ Quantity <= RelevantBalance

\* C31 as stated: on every reachable active pool, swapToken1(a) and
\* swapToken2(a) with 1 <= a <= the caller's balance succeed.
C31_AsStated ==
    /\ SwapWithinBalance("swapToken1") => call.err = ""
    /\ SwapWithinBalance("swapToken2") => call.err = ""

\* C31 amended: such a swap succeeds exactly when the input reserve plus a and
\* the caller's balance of the token paid out plus the payout both fit the
\* unsigned integer type, and otherwise fails with an arithmetic overflow; the
\* subtraction totalOut - floor(K / (totalIn + a)) never underflows and the
\* division is never by zero.
C31_SwapsSucceed ==
    /\ SwapWithinBalance("swapToken1") =>
          /\ saved.K \div (saved.totalToken1 + call.argAmountToken1) <= saved.totalToken2
          /\ IF /\ saved.totalToken1 + call.argAmountToken1 <= MaxUint
                /\ saved.token2Balance[call.sender] + Swap1Out <= MaxUint
             THEN call.err = "" /\ call.amountToken2 = Swap1Out
             ELSE call.err = ErrOverflow
    /\ SwapWithinBalance("swapToken2") =>
          /\ saved.K \div (saved.totalToken2 + call.argAmountToken2) <= saved.totalToken1
          /\ IF /\ saved.totalToken2 + call.argAmountToken2 <= MaxUint
                /\ saved.token1Balance[call.sender] + Swap2Out <= MaxUint
             THEN call.err = "" /\ call.amountToken1 = Swap2Out
             ELSE call.err = ErrOverflow

\* a swap paid out on a pool whose K was stale: above the product of the
\* reserves
C31_Witness ==
    /\ Succeeded("swapToken1")
    /\ saved.K > saved.totalToken1 * saved.totalToken2
    /\ call.amountToken2 > 0

\* the call in flight is a successful swap of exactly what the caller's swap in
\* the other direction has just paid out, no call having changed storage between
SwapRoundTrip(first, second) ==
    /\ Succeeded(second)
    /\ lastSwap.op = first
    /\ lastSwap.sender = call.sender
    /\ lastSwap.amountOut > 0
    /\ Quantity = lastSwap.amountOut

\* C32: a swapToken1(a) that paid out > 0 followed at once by the same caller's
\* swapToken2(out) returns at most a of Token1; and the mirror, starting with
\* swapToken2.
C32_NoRoundTripProfit ==
    /\ SwapRoundTrip("swapToken1", "swapToken2") => call.amountToken1 <= lastSwap.amountIn
    /\ SwapRoundTrip("swapToken2", "swapToken1") => call.amountToken2 <= lastSwap.amountIn

\* a round trip on a pool with stale K returned less than was paid in
C32_Witness ==
    /\ SwapRoundTrip("swapToken1", "swapToken2")
    /\ saved.K # saved.totalToken1 * saved.totalToken2
    /\ call.amountToken1 > 0
    /\ call.amountToken1 < lastSwap.amountIn

\* the call in flight is a withdraw on an active pool that passed
\* validAmountCheck: 0 < share <= the caller's shares
WithdrawWithinBalance ==
    /\ Done("withdraw")
    /\ saved.totalShares > 0
    /\ 0 < call.argShare /\ call.argShare <= saved.shares[call.sender]

\* what getWithdrawEstimate returns for the call in flight, when its products fit
WithdrawOut1 == (call.argShare * saved.totalToken1) \div saved.totalShares
WithdrawOut2 == (call.argShare * saved.totalToken2) \div saved.totalShares

\* the products and the credits of the withdraw in flight fit the uint type
WithdrawFits ==
    /\ Fits(call.argShare, saved.totalToken1)
    /\ Fits(call.argShare, saved.totalToken2)
    /\ saved.token1Balance[call.sender] + WithdrawOut1 <= MaxUint
    /\ saved.token2Balance[call.sender] + WithdrawOut2 <= MaxUint

\* C33 as stated: withdraw never fails with ShareExceedsTotal; whenever the
\* caller passes the amount check on an active pool, share <= totalShares and
\* the withdraw succeeds.
C33_AsStated ==
    /\ Done("withdraw") => call.err # ErrShareExceedsTotal
    /\ WithdrawWithinBalance =>
          call.argShare <= saved.totalShares /\ call.err = ""

\* C33 amended: withdraw never fails with ShareExceedsTotal; whenever the
\* caller passes the amount check on an active pool, share <= totalShares, and
\* the withdraw succeeds exactly when share * totalToken1, share * totalToken2
\* and the two credited balances fit the unsigned integer type; otherwise it
\* fails with an arithmetic overflow.
C33_WithdrawSucceeds ==
    /\ Done("withdraw") => call.err # ErrShareExceedsTotal
    /\ WithdrawWithinBalance =>
          /\ call.argShare <= saved.totalShares
          /\ IF WithdrawFits THEN call.err = "" ELSE call.err = ErrOverflow

\* one of two holders withdrew all its shares
C33_Witness ==
    /\ Succeeded("withdraw")
    /\ saved.totalShares > 0
    /\ call.argShare = saved.shares[call.sender]
    /\ call.argShare < saved.totalShares
    /\ totalShares = saved.totalShares - call.argShare

\* the product a * b as two limbs <<high, low>>, for a <= Limb: it may exceed
\* what the model checker's integers hold
Limb == 2^15
WideMul(a, b) ==
    LET low == a * (b % Limb)
    IN  << a * (b \div Limb) + (low \div Limb), low % Limb >>

WideLeq(p, q) == p[1] < q[1] \/ (p[1] = q[1] /\ p[2] <= q[2])

\* reserve per share did not decrease: reserveAfter * sharesBefore >=
\* reserveBefore * sharesAfter
NotDiluted(reserveBefore, sharesBefore, reserveAfter, sharesAfter) ==
    WideLeq(WideMul(reserveBefore, sharesAfter), WideMul(reserveAfter, sharesBefore))

\* a provide on an active pool, or a withdraw that left shares outstanding,
\* has just succeeded
SharesRepriced ==
    \/ Succeeded("provide") /\ saved.totalShares > 0
    \/ Succeeded("withdraw") /\ totalShares > 0

\* C34: after every successful non-genesis provide and every successful
\* withdraw that leaves totalShares > 0, totalToken1' * totalShares >=
\* totalToken1 * totalShares' and totalToken2' * totalShares >= totalToken2 *
\* totalShares' (primed = after the call).
C34_NoDilution ==
    SharesRepriced =>
        /\ NotDiluted(saved.totalToken1, saved.totalShares, totalToken1, totalShares)
        /\ NotDiluted(saved.totalToken2, saved.totalShares, totalToken2, totalShares)

\* a withdraw rounded its Token1 amount down and left the remaining shares
\* worth strictly more
C34_Witness ==
    /\ Succeeded("withdraw")
    /\ totalShares > 0
    /\ call.amountToken1 > 0
    /\ ~NotDiluted(totalToken1, totalShares, saved.totalToken1, saved.totalShares)
    /\ NotDiluted(saved.totalToken2, saved.totalShares, totalToken2, totalShares)

\* the whole call withdraw(shares[a]) by a on storage s: [err, st]
WithdrawAll(s, a) ==
    LET e == withdrawEntry(s, a, s.shares[a])
        c == [NoCall EXCEPT !.op = "withdraw", !.sender = a, !.argShare = s.shares[a],
                            !.amountToken1 = e.ret1, !.amountToken2 = e.ret2]
    IN  IF e.err # "" THEN [err |-> e.err, st |-> s]
        ELSE LET run == RunAll(WithdrawBody, 1, s, c)
             IN  IF run.err # "" THEN [err |-> run.err, st |-> s] ELSE run

\* the orders in which the accounts may leave
ExitOrders == {o \in [1..Cardinality(Accounts) -> Accounts] : \A a \in Accounts : \E i \in DOMAIN o : o[i] = a}

Holders(s) == {a \in Accounts : s.shares[a] > 0}

Emptied(s) == s.totalShares = 0 /\ s.totalToken1 = 0 /\ s.totalToken2 = 0 /\ s.K = 0

\* the products and credits of withdraw(shares[a]) by a on s fit the uint type
WithdrawAllFits(s, a) ==
    /\ Fits(s.shares[a], s.totalToken1)
    /\ Fits(s.shares[a], s.totalToken2)
    /\ s.token1Balance[a] + (s.shares[a] * s.totalToken1) \div s.totalShares <= MaxUint
    /\ s.token2Balance[a] + (s.shares[a] * s.totalToken2) \div s.totalShares <= MaxUint

\* every holder from the i-th of the order on withdraws all its shares from s,
\* each call succeeds, and the pool ends empty
RECURSIVE ExitSucceeds(_, _, _)
ExitSucceeds(s, order, i) ==
    IF i > Len(order) THEN Emptied(s)
    ELSE IF order[i] \notin Holders(s) THEN ExitSucceeds(s, order, i + 1)
    ELSE LET w == WithdrawAll(s, order[i])
         IN  w.err = "" /\ ExitSucceeds(w.st, order, i + 1)

\* the same, each call succeeding when its products and credits fit and
\* failing with an overflow, which ends the exit, when they do not
RECURSIVE ExitSucceedsIfFits(_, _, _)
ExitSucceedsIfFits(s, order, i) ==
    IF i > Len(order) THEN Emptied(s)
    ELSE IF order[i] \notin Holders(s) THEN ExitSucceedsIfFits(s, order, i + 1)
    ELSE LET w == WithdrawAll(s, order[i])
         IN  IF WithdrawAllFits(s, order[i])
             THEN w.err = "" /\ ExitSucceedsIfFits(w.st, order, i + 1)
             ELSE w.err = ErrOverflow /\ w.st = s

\* C35 as stated: from every reachable active pool state, when every holder
\* withdraws its whole share balance, in any order and with no other call in
\* between, every withdraw succeeds and the pool ends with totalShares =
\* totalToken1 = totalToken2 = K = 0.
C35_AsStated ==
    (pc = "idle" /\ totalShares > 0) =>
        \A order \in ExitOrders : ExitSucceeds(Storage, <<order[1], order[2]>>, 1)

\* C35 amended: the same, as long as share * totalToken1, share * totalToken2
\* and the two credited balances of each withdraw fit the unsigned integer
\* type; a withdraw for which they do not fails with an arithmetic overflow
\* and changes nothing.
C35_FullExit ==
    (pc = "idle" /\ totalShares > 0) =>
        \A order \in ExitOrders : ExitSucceedsIfFits(Storage, <<order[1], order[2]>>, 1)

\* two holders, and every order of leaving empties the pool
C35_Witness ==
    /\ pc = "idle"
    /\ Holders(Storage) = Accounts
    /\ totalToken1 > 1 /\ totalToken2 > 1
    /\ \A order \in ExitOrders : ExitSucceeds(Storage, <<order[1], order[2]>>, 1)

\* ------------------------------------------------- the swap form (front end)
\* SwapComponent.jsx: the From and To boxes, the reverse button, and the
\* estimate calls they make.  A call is made when a box changes and its
\* response arrives later, as its own step, in any order with the others.
MaxRequests == 3

\* val * PRECISION, the amount passed to the contract
TimesPrecision(val) == val.whole * PRECISION + val.micros

\* estimate / PRECISION, the number shown in the box
OverPrecision(n) == Decimal(n \div PRECISION, n % PRECISION)

\* what is typed into a box: nothing, or a number of millionths the pool can trade
FormInputs == {Blank} \cup {Decimal(0, m) : m \in 1..MaxAmount}

\* the contract function the form calls, as the response will report it
EstimateCall(fn, s, n) ==
    CASE fn = "getSwapToken1Estimate" -> getSwapToken1Estimate(s, n)
      [] fn = "getSwapToken2Estimate" -> getSwapToken2Estimate(s, n)
      [] fn = "getSwapToken1EstimateGivenToken2" -> getSwapToken1EstimateGivenToken2(s, n)
      [] fn = "getSwapToken2EstimateGivenToken1" -> getSwapToken2EstimateGivenToken1(s, n)

\* getSwapEstimateAmountTo(val) up to its await, with c the coin array it reads
getSwapEstimateAmountTo(c, val) ==
    IF val.kind = "blank" \/ contract = "null"
    THEN /\ latest' = NoRequest
         /\ UNCHANGED <<pending, issued>>
    ELSE LET request == [id |-> issued + 1,
                         fn |-> IF c[1] = "KAR" THEN "getSwapToken1Estimate"
                                ELSE "getSwapToken2Estimate",
                         val |-> val, sets |-> "amountTo"]
         IN  /\ pending' = pending \cup {request}
             /\ issued' = issued + 1
             /\ latest' = request

\* getSwapEstimateAmountFrm(val) up to its await
getSwapEstimateAmountFrm(val) ==
    IF val.kind = "blank" \/ contract = "null"
    THEN UNCHANGED <<pending, issued>>
    ELSE LET request == [id |-> issued + 1,
                         fn |-> IF coin[1] = "KAR" THEN "getSwapToken1EstimateGivenToken2"
                                ELSE "getSwapToken2EstimateGivenToken1",
                         val |-> val, sets |-> "amountFrom"]
         IN  /\ pending' = pending \cup {request}
             /\ issued' = issued + 1

onChangeAmtFrm(val) ==
    /\ issued < MaxRequests
    /\ amountFrom' = val
    /\ getSwapEstimateAmountTo(coin, val)
    /\ UNCHANGED <<contract, coin, amountTo>>
    /\ UNCHANGED chainVars

onChangeAmtTo(val) ==
    /\ issued < MaxRequests
    /\ amountTo' = val
    /\ getSwapEstimateAmountFrm(val)
    /\ latest' = NoRequest
    /\ UNCHANGED <<contract, coin, amountFrom>>
    /\ UNCHANGED chainVars

\* coin.reverse() reverses the array in place, so the estimate call that
\* follows reads the reversed array
rev ==
    /\ issued < MaxRequests
    /\ coin' = << coin[2], coin[1] >>
    /\ getSwapEstimateAmountTo(coin', amountFrom)
    /\ UNCHANGED <<contract, amountFrom, amountTo>>
    /\ UNCHANGED chainVars

\* the rest of the async function after its await: the result is shown, or the
\* failure is alerted and nothing is shown
ResponseShown(request, r) == r.err = ""

Resolve(request) ==
    /\ request \in pending
    /\ pending' = pending \ {request}
    /\ LET r == EstimateCall(request.fn, Storage, TimesPrecision(request.val))
           shown == ResponseShown(request, r)
       IN  /\ amountTo' = IF shown /\ request.sets = "amountTo"
                          THEN OverPrecision(r.ret1) ELSE amountTo
           /\ amountFrom' = IF shown /\ request.sets = "amountFrom"
                            THEN OverPrecision(r.ret1) ELSE amountFrom
    /\ UNCHANGED <<contract, coin, issued, latest>>
    /\ UNCHANGED chainVars

\* the form is opened on a pool its host has just funded with faucet(x, y) and
\* provide(x, y), with or without a connected wallet
FormInit ==
    /\ \E x \in 1..MaxAmount, y \in 1..MaxAmount :
          /\ totalToken1 = x /\ totalToken2 = y /\ K = x * y
          /\ lastProvide = [sender |-> Host, amountToken1 |-> x, amountToken2 |-> y,
                            share |-> 100 * PRECISION, totalShares |-> 0,
                            totalToken1 |-> 0, totalToken2 |-> 0]
    /\ totalShares = 100 * PRECISION
    /\ shares = [a \in Accounts |-> IF a = Host THEN 100 * PRECISION ELSE 0]
    /\ token1Balance = [a \in Accounts |-> 0]
    /\ token2Balance = [a \in Accounts |-> 0]
    /\ pc = "idle" /\ ip = 0 /\ call = NoCall
    /\ saved = Storage
    /\ lastSwap = NoSwap
    /\ contract \in {"null", "AMM"}
    /\ Mounted

FormNext ==
    \/ \E val \in FormInputs : onChangeAmtFrm(val)
    \/ \E val \in FormInputs : onChangeAmtTo(val)
    \/ rev
    \/ \E request \in pending : Resolve(request)

FormSpec == FormInit /\ [][FormNext]_vars

\* the pool on which the form can be opened is one the contract reaches
FormInitReached ==
    /\ pc = "idle" /\ totalShares = 100 * PRECISION
    /\ shares[Host] = 100 * PRECISION
    /\ token1Balance[Host] = 0 /\ token2Balance[Host] = 0
    /\ lastProvide.sender = Host /\ lastProvide.totalShares = 0
    /\ totalToken1 = MaxAmount /\ totalToken2 = 1 /\ K = totalToken1 * totalToken2

\* what the To box shows when the response to request is shown
ShownFor(request) ==
    OverPrecision(EstimateCall(request.fn, Storage, TimesPrecision(request.val)).ret1)

\* C36 as stated: once every pending estimate call has resolved, the To box
\* shows the estimate for the From amount entered last: the response to an
\* older call never replaces that of a newer one.
C36_AsStated ==
    (pending = {} /\ latest # NoRequest) => amountTo = ShownFor(latest)

\* ---------------------------------------------------------------------------
\* Guard precedence
\* ---------------------------------------------------------------------------

\* C37: withdraw, swapToken1 and swapToken2 on an inactive pool fail with
\* ZeroLiquidity whatever the quantity, 0 or beyond the balance included; on
\* an active pool a quantity of 0 fails with ZeroAmount, and only a positive
\* one beyond the balance with InsufficientBalance; provide checks amount1
\* completely before amount2: provide(0, x) fails with ZeroAmount for every
\* x, an amount1 beyond the balance fails with InsufficientBalance even when
\* amount2 is 0, and amount2 is judged only once amount1 has passed.
C37_GuardPrecedence ==
    /\ \A op \in {"withdraw", "swapToken1", "swapToken2"} :
          /\ (Done(op) /\ saved.totalShares = 0) => call.err = ErrZeroLiquidity
          /\ (Done(op) /\ saved.totalShares > 0 /\ Quantity = 0) =>
                 call.err = ErrZeroAmount
          /\ (Done(op) /\ saved.totalShares > 0 /\ Quantity > 0
                 /\ Quantity > RelevantBalance) =>
                 call.err = ErrInsufficientBalance
    /\ Done("provide") =>
          LET b1 == saved.token1Balance[call.sender]
              b2 == saved.token2Balance[call.sender]
              a1 == call.argAmountToken1
              a2 == call.argAmountToken2
          IN  /\ (a1 = 0) => call.err = ErrZeroAmount
              /\ (a1 > 0 /\ a1 > b1) => call.err = ErrInsufficientBalance
              /\ (a1 > 0 /\ a1 <= b1 /\ a2 = 0) => call.err = ErrZeroAmount
              /\ (a1 > 0 /\ a1 <= b1 /\ a2 > 0 /\ a2 > b2) =>
                     call.err = ErrInsufficientBalance

\* provide was called with an amount1 beyond the caller's balance and an
\* amount2 of 0, and failed with InsufficientBalance
C37_Witness ==
    /\ Failed("provide")
    /\ call.argAmountToken1 > saved.token1Balance[call.sender]
    /\ call.argAmountToken2 = 0
    /\ call.err = ErrInsufficientBalance

\* a swap with a quantity beyond the caller's balance was called on an
\* inactive pool and failed with ZeroLiquidity
C37_InactiveReached ==
    /\ Failed("swapToken1") /\ saved.totalShares = 0
    /\ Quantity > RelevantBalance
    /\ call.err = ErrZeroLiquidity

====
